---------------------------- MODULE Spec2Model ----------------------------
(***************************************************************************)
(* Security auditing and DDoS protection of highload-microservice.         *)
(*                                                                         *)
(*   package security   (src/unnamed/part_012, lines 50-800)               *)
(*     SecurityAuditor       LogEvent, processEvents, logEventDirectly,    *)
(*                           logAlert, calculateRiskScore                  *)
(*     BruteForceAnalyzer, SuspiciousActivityAnalyzer, RateLimitAnalyzer   *)
(*   package middleware (src/internal/middleware/ddos.go)                  *)
(*     DDoSProtection        Protect, isBlocked, recordRequest,            *)
(*                           shouldBlock, blockIP, cleanup, GetStats       *)
(*                                                                         *)
(* Time is an integer.  The analyzers' clock counts minutes (their windows *)
(* are 15 minutes and 1 hour); the DDoS tracker's durations are the        *)
(* configured numbers of clock units.  time.Now() is the variable now.     *)
(*                                                                         *)
(* A Go map is a function whose DOMAIN is the set of keys present; a slice *)
(* is a sequence (a nil slice is << >>).  A SecurityEvent is a record of   *)
(* the fields the code under study reads: ID, Timestamp, EventType,        *)
(* Severity, UserID ("" is nil), IPAddress, RiskScore, Blocked.  UserAgent,*)
(* RequestID, Endpoint, Method, Status and Details are only copied into    *)
(* the log entry and are left out.                                         *)
(***************************************************************************)
EXTENDS Integers, Sequences, FiniteSets, TLC

VARIABLES
    now,              \* time.Now()
    rsEvent,          \* calculateRiskScore: the event it is applied to
    rsScore,          \* calculateRiskScore: its result (-1: not yet computed)
    failedLogins,     \* BruteForceAnalyzer.failedLogins  map[string][]time.Time
    bfHist,           \* history: per address, the current series of failures
    rateLimitEvents,  \* RateLimitAnalyzer.rateLimitEvents map[string][]time.Time
    rlHist,           \* history: per address, the current series of events
    userActivity,     \* SuspiciousActivityAnalyzer.userActivity map[string][]SecurityEvent
    saHist,           \* history: per actor, the events of the last hour Analyze was called with
    saCalls,          \* history: the number of SuspiciousActivityAnalyzer.Analyze calls
    saAlerted,        \* history: per actor, whether the last Analyze call returned an alert
    events,           \* SecurityAuditor.events, the buffered channel
    lpc,              \* per LogEvent caller: where it is in LogEvent
    lev,              \* per LogEvent caller: its local variable event
    lsteps,           \* history: per LogEvent caller, the steps of its current call
    wpc,              \* processEvents: where the worker is in its loop body
    wev,              \* processEvents: its loop variable event
    sink,             \* the entries written to the logger, in order
    nextSub,          \* history: the number of LogEvent calls so far
    calls,            \* history: per LogEvent call, its argument, its path and whether it was analyzed
    logLevel,         \* the level of the logger the auditor writes to
    faulty,           \* the analyzers of sa.analyzers whose Analyze returns an error
    cfg,              \* DDoSProtection: maxRequests, windowDuration, blockDuration
    requests,         \* DDoSProtection.requests  map[string][]time.Time
    hpc,              \* per request handler: where it is in Protect
    hctx,             \* per request handler: clientIP and now of its Protect call
    ddArrivals,       \* history: per address, the times of its Protect calls
    ddRecorded,       \* history: per address, every timestamp ever recorded
    ddAllowed,        \* history: per address, the timestamps of the requests allowed
    ddExceeded,       \* history: per address, whether it ever exceeded maxRequests per window
    ddLast,           \* history: the last decision of Protect
    ddCalls,          \* history: the number of Protect calls so far
    ddStats,          \* history: what the last GetStats call returned
    statsPC,          \* the GetStats caller: "idle", or "reading" (it holds the read lock)
    statsNow,         \* the GetStats caller: its local variable now
    writerWaiting,    \* DDoSProtection.mutex: a Lock() call waits for the readers to leave
    jobQueue,         \* Pool.jobQueue, the buffered channel
    quit,             \* Pool.quit: "open" or "closed"
    wkpc,             \* per pool worker: where it is in Pool.worker
    ajpc,             \* per AddJob caller: where it is in AddJob
    ajsteps,          \* history: per AddJob caller, the steps of its current call
    jobCount,         \* history: the number of AddJob calls so far
    dropped,          \* history: per dropped job, the queue length its select found
    taken,            \* history: the number of jobs the workers received
    stoppc,           \* the Stop caller: "idle", "waiting" (in wg.Wait) or "done"
    ajjob,            \* per AddJob caller: its argument job
    wkjob,            \* per pool worker: its local variable job
    executed,         \* history: per job, the workers that called it, in order
    processing,       \* the number of processEvent goroutines that have not returned
    metrics,          \* SecurityMetrics: its counters
    smMu,             \* SecurityMetrics.mu: "" or the caller that holds the write lock
    smpc,             \* per IncrementEvent caller: where it is in the call
    smArgs,           \* per IncrementEvent caller: the arguments of its call
    smLocal,          \* per IncrementEvent caller: the counters as it loaded them
    smHist,           \* history: the arguments of the calls completed since the last Reset
    smLast,           \* history: the method that returned last
    smSnap,           \* what the last GetMetrics call returned
    smStarted,        \* history: the number of IncrementEvent calls so far
    shutdown,         \* main: the interrupt signal has arrived
    part              \* which part of the program a behaviour exercises

clockVars == <<now>>
riskVars  == <<rsEvent, rsScore>>
bfVars    == <<failedLogins, bfHist>>
rlVars    == <<rateLimitEvents, rlHist>>
saVars    == <<userActivity, saHist, saCalls, saAlerted>>
audVars   == <<events, lpc, lev, lsteps, wpc, wev, sink, nextSub, calls, logLevel, faulty>>
statsVars == <<ddStats, statsPC, statsNow, writerWaiting>>
ddosVars  == <<cfg, requests, hpc, hctx, ddArrivals, ddRecorded, ddAllowed, ddExceeded, ddLast, ddCalls,
               ddStats, statsPC, statsNow, writerWaiting>>
poolVars  == <<jobQueue, quit, wkpc, ajpc, ajsteps, jobCount, dropped, taken, stoppc,
               ajjob, wkjob, executed, processing>>
envVars   == <<shutdown, part>>
metVars   == <<metrics, smMu, smpc, smArgs, smLocal, smHist, smLast, smSnap, smStarted>>

-----------------------------------------------------------------------------
(* Bounds of the model *)

\* the brute-force clock stops here (minutes)
MaxClockBF == 15
\* the clock of the one-hour analyzers stops here (minutes)
MaxClockHour == 60
\* the number of events SuspiciousActivityAnalyzer is driven with
MaxSAEvents == 10
\* the number of LogEvent calls
MaxEvents == 3
\* the capacity of the events channel in the model; NewSecurityAuditor makes
\* it 1000 (part_012:160), and nothing in LogEvent or processEvents depends on
\* the number
EventQueueCap == 1
\* the DDoS tracker's clock stops here
MaxClockDD == 4
\* the number of Protect calls
MaxProtectCalls == 3
\* the number of IncrementEvent calls
MaxIncrements == 3

-----------------------------------------------------------------------------
(* Types of package security *)

\* part_012:80-119
EventTypes ==
    { "login_success", "login_failure", "logout", "token_refresh",
      "token_expired", "invalid_token",
      "access_granted", "access_denied", "privilege_escalation",
      "rate_limit_exceeded", "ddos_detected", "ip_blocked",
      "validation_failed", "sql_injection_attempt", "xss_attempt",
      "suspicious_input",
      "api_key_created", "api_key_used", "api_key_revoked",
      "system_startup", "system_shutdown", "config_change",
      "suspicious_user_agent", "multiple_failures", "unusual_activity" }

\* part_012:124-129
Severities == { "low", "medium", "high", "critical" }

\* SecuritySeverity and SecurityEventType are string types: a caller can pass
\* a value outside the declared constants ("" is the zero value).
AnySeverity == Severities \cup { "" }
AnyEventType == EventTypes \cup { "" }

IPs == { "10.0.0.1", "10.0.0.2" }
Users == { "u1" }

SecurityEvent(id, ts, typ, sev, user, ip, risk, blocked) ==
    [ ID |-> id, Timestamp |-> ts, EventType |-> typ, Severity |-> sev,
      UserID |-> user, IPAddress |-> ip, RiskScore |-> risk, Blocked |-> blocked ]

\* a map without key k (Go: delete(m, k))
MapDelete(m, k) == [ x \in DOMAIN m \ {k} |-> m[x] ]

\* a map with m[k] = v (Go: m[k] = v)
MapPut(m, k, v) == [ x \in DOMAIN m \cup {k} |-> IF x = k THEN v ELSE m[x] ]

\* Go: m[k] of a map of slices (nil when the key is absent)
MapGet(m, k) == IF k \in DOMAIN m THEN m[k] ELSE << >>

\* time.Time.After
After(t, u) == t > u

-----------------------------------------------------------------------------
(* SecurityAuditor.calculateRiskScore, part_012:411-461 *)

\* a slip of the base table (xss_attempt scored as suspicious_input) and of
\* the blocked bonus
calculateRiskScore_Slip(event) ==
    LET base == CASE event.EventType = "login_failure" -> 20
                  [] event.EventType = "access_denied" -> 15
                  [] event.EventType = "rate_limit_exceeded" -> 25
                  [] event.EventType = "ddos_detected" -> 50
                  [] event.EventType = "sql_injection_attempt" -> 40
                  [] event.EventType = "xss_attempt" -> 30
                  [] event.EventType = "suspicious_input" -> 30
                  [] event.EventType = "suspicious_user_agent" -> 20
                  [] event.EventType = "multiple_failures" -> 35
                  [] event.EventType = "unusual_activity" -> 25
                  [] OTHER -> 0
        sev == CASE event.Severity = "critical" -> base + 30
                 [] event.Severity = "high" -> base + 20
                 [] event.Severity = "medium" -> base + 10
                 [] event.Severity = "low" -> base + 5
                 [] OTHER -> base
        score == IF event.Blocked THEN sev + 10 ELSE sev
    IN  IF score > 100 THEN 100 ELSE score

calculateRiskScore(event) ==
    LET base == CASE event.EventType = "login_failure" -> 20
                  [] event.EventType = "access_denied" -> 15
                  [] event.EventType = "rate_limit_exceeded" -> 25
                  [] event.EventType = "ddos_detected" -> 50
                  [] event.EventType = "sql_injection_attempt" -> 40
                  [] event.EventType = "xss_attempt" -> 35
                  [] event.EventType = "suspicious_input" -> 30
                  [] event.EventType = "suspicious_user_agent" -> 20
                  [] event.EventType = "multiple_failures" -> 35
                  [] event.EventType = "unusual_activity" -> 25
                  [] OTHER -> 0
        sev == CASE event.Severity = "critical" -> base + 30
                 [] event.Severity = "high" -> base + 20
                 [] event.Severity = "medium" -> base + 10
                 [] event.Severity = "low" -> base + 5
                 [] OTHER -> base
        score == IF event.Blocked THEN sev + 15 ELSE sev
    IN  IF score > 100 THEN 100 ELSE score

\* the events calculateRiskScore is applied to: every kind, severity and
\* blocked flag, with the other fields varying
RiskInputs ==
    { SecurityEvent(id, 0, typ, sev, user, ip, risk, blocked) :
        id \in { "", "e1" }, typ \in AnyEventType, sev \in AnySeverity,
        user \in { "" } \cup Users, ip \in IPs, risk \in { 0, 70 },
        blocked \in BOOLEAN }

InitRisk ==
    /\ rsEvent \in RiskInputs
    /\ rsScore = -1

\* score := sa.calculateRiskScore(event)
CalculateRisk ==
    /\ rsScore = -1
    /\ rsScore' = calculateRiskScore(rsEvent)
    /\ UNCHANGED << envVars, metVars, poolVars, rsEvent, clockVars, bfVars, rlVars, saVars, audVars, ddosVars >>

-----------------------------------------------------------------------------
(* The clock *)

Min(a, b) == IF a <= b THEN a ELSE b

\* time passes: d units, up to the bound
Tick(d, max) ==
    /\ now + d <= max
    /\ now' = now + d

\* SecurityAlert (part_012:144-154), the fields that differ between alerts;
\* Key and Count are the Metadata entries ip_address/user_key and
\* failure_count/violation_count/total_events
SecurityAlert(title, sev, ids, risk, key, count) ==
    [ Title |-> title, Severity |-> sev, EventIDs |-> ids, RiskScore |-> risk,
      Key |-> key, Count |-> count ]

-----------------------------------------------------------------------------
(* BruteForceAnalyzer, part_012:485-552 *)

\* part_012:511  time.Now().Add(-15 * time.Minute)
BruteForceWindow == 15
\* part_012:521  len(recentFailures) >= 5
BruteForceThreshold == 5

\* a slip of the order: the threshold test on the list before pruning
BruteForceAnalyze_CountFirst(m, event, t) ==
    IF event.EventType # "login_failure"
    THEN [ state |-> m, alerts |-> << >> ]
    ELSE LET ip == event.IPAddress
             appended == Append(MapGet(m, ip), event.Timestamp)
             cutoff == t - BruteForceWindow
             recentFailures == SelectSeq(appended, LAMBDA ts : After(ts, cutoff))
         IN  IF Len(appended) >= BruteForceThreshold
             THEN [ state |-> MapDelete(m, ip),
                    alerts |-> << SecurityAlert("Brute Force Attack Detected", "high",
                                                << event.ID >>, 75, ip,
                                                Len(appended)) >> ]
             ELSE [ state |-> MapPut(m, ip, recentFailures), alerts |-> << >> ]

\* a slip of the threshold test: > for >=
BruteForceAnalyze_Gt(m, event, t) ==
    IF event.EventType # "login_failure"
    THEN [ state |-> m, alerts |-> << >> ]
    ELSE LET ip == event.IPAddress
             appended == Append(MapGet(m, ip), event.Timestamp)
             cutoff == t - BruteForceWindow
             recentFailures == SelectSeq(appended, LAMBDA ts : After(ts, cutoff))
         IN  IF Len(recentFailures) > BruteForceThreshold
             THEN [ state |-> MapDelete(m, ip),
                    alerts |-> << SecurityAlert("Brute Force Attack Detected", "high",
                                                << event.ID >>, 75, ip,
                                                Len(recentFailures)) >> ]
             ELSE [ state |-> MapPut(m, ip, recentFailures), alerts |-> << >> ]

\* Analyze(event) at time t on the map m: the map afterwards and the alert
\* returned (<< >>: nil).  The error result is always nil.
BruteForceAnalyze(m, event, t) ==
    IF event.EventType # "login_failure"
    THEN [ state |-> m, alerts |-> << >> ]
    ELSE LET ip == event.IPAddress
             \* bfa.failedLogins[ip] = append(bfa.failedLogins[ip], event.Timestamp)
             appended == Append(MapGet(m, ip), event.Timestamp)
             cutoff == t - BruteForceWindow
             recentFailures == SelectSeq(appended, LAMBDA ts : After(ts, cutoff))
         IN  IF Len(recentFailures) >= BruteForceThreshold
             THEN [ state |-> MapDelete(m, ip),
                    alerts |-> << SecurityAlert("Brute Force Attack Detected", "high",
                                                << event.ID >>, 75, ip,
                                                Len(recentFailures)) >> ]
             \* bfa.failedLogins[ip] = recentFailures (the key stays, also when
             \* recentFailures is nil)
             ELSE [ state |-> MapPut(m, ip, recentFailures), alerts |-> << >> ]

\* history of a per-address series: n events since the address's state was
\* last empty or cleared (counted up to max), the earliest of their
\* timestamps, and whether the last of them returned an alert
SeriesStep(hist, fresh, event, alerted, max) ==
    [ n |-> IF fresh THEN 1 ELSE Min(max, hist.n + 1),
      first |-> IF fresh THEN event.Timestamp ELSE Min(hist.first, event.Timestamp),
      alerted |-> alerted ]

NoSeries == [ n |-> 0, first |-> 0, alerted |-> FALSE ]

InitBF ==
    /\ failedLogins = << >>
    /\ bfHist = [ ip \in IPs |-> NoSeries ]

\* one call bfa.Analyze(event), with its history
BFCall(event) ==
    LET res == BruteForceAnalyze(failedLogins, event, now)
        ip == event.IPAddress
        fresh == MapGet(failedLogins, ip) = << >>
        h == SeriesStep(bfHist[ip], fresh, event, res.alerts # << >>,
                        BruteForceThreshold + 1)
    IN  /\ failedLogins' = res.state
        /\ bfHist' = IF event.EventType = "login_failure"
                      THEN [ bfHist EXCEPT ![ip] = h ]
                      ELSE bfHist

\* the events the brute-force analyzer is driven with: login failures and
\* another kind, stamped now or one window ago (an event that waited in the
\* queue)
BFInputs ==
    { SecurityEvent("e", ts, typ, "medium", "", ip, 30, FALSE) :
        ts \in { now } \cup { t \in { now - BruteForceWindow } : t >= 0 },
        typ \in { "login_failure", "login_success" },
        ip \in IPs }

AnalyzeBF ==
    /\ \E event \in BFInputs : BFCall(event)
    /\ UNCHANGED << envVars, metVars, poolVars, clockVars, riskVars, rlVars, saVars, audVars, ddosVars >>

TickBF ==
    /\ \E d \in { 5, BruteForceWindow } : Tick(d, MaxClockBF)
    /\ UNCHANGED << envVars, metVars, poolVars, riskVars, bfVars, rlVars, saVars, audVars, ddosVars >>

-----------------------------------------------------------------------------
(* RateLimitAnalyzer, part_012:646-712 *)

\* part_012:672  time.Now().Add(-1 * time.Hour)
RateLimitWindow == 60
\* part_012:682  len(recentEvents) >= 10
RateLimitThreshold == 10

\* a slip of the kind test: DDoS-detected events are not counted
RateLimitAnalyze_OnlyRateLimit(m, event, t) ==
    IF event.EventType # "rate_limit_exceeded"
    THEN [ state |-> m, alerts |-> << >> ]
    ELSE LET ip == event.IPAddress
             appended == Append(MapGet(m, ip), event.Timestamp)
             cutoff == t - RateLimitWindow
             recentEvents == SelectSeq(appended, LAMBDA ts : After(ts, cutoff))
         IN  IF Len(recentEvents) >= RateLimitThreshold
             THEN [ state |-> MapDelete(m, ip),
                    alerts |-> << SecurityAlert("Persistent Rate Limiting", "high",
                                                << event.ID >>, 70, ip,
                                                Len(recentEvents)) >> ]
             ELSE [ state |-> MapPut(m, ip, recentEvents), alerts |-> << >> ]

RateLimitAnalyze(m, event, t) ==
    IF event.EventType # "rate_limit_exceeded" /\ event.EventType # "ddos_detected"
    THEN [ state |-> m, alerts |-> << >> ]
    ELSE LET ip == event.IPAddress
             appended == Append(MapGet(m, ip), event.Timestamp)
             cutoff == t - RateLimitWindow
             recentEvents == SelectSeq(appended, LAMBDA ts : After(ts, cutoff))
         IN  IF Len(recentEvents) >= RateLimitThreshold
             THEN [ state |-> MapDelete(m, ip),
                    alerts |-> << SecurityAlert("Persistent Rate Limiting", "high",
                                                << event.ID >>, 70, ip,
                                                Len(recentEvents)) >> ]
             ELSE [ state |-> MapPut(m, ip, recentEvents), alerts |-> << >> ]

InitRL ==
    /\ rateLimitEvents = << >>
    /\ rlHist = [ ip \in IPs |-> NoSeries ]

\* one call rla.Analyze(event), with its history
RLCall(event) ==
    LET res == RateLimitAnalyze(rateLimitEvents, event, now)
        ip == event.IPAddress
        fresh == MapGet(rateLimitEvents, ip) = << >>
        h == SeriesStep(rlHist[ip], fresh, event, res.alerts # << >>,
                        RateLimitThreshold + 1)
    IN  /\ rateLimitEvents' = res.state
        /\ rlHist' = IF event.EventType \in { "rate_limit_exceeded", "ddos_detected" }
                      THEN [ rlHist EXCEPT ![ip] = h ]
                      ELSE rlHist

RLInputs ==
    { SecurityEvent("e", ts, typ, "high", "", ip, 45, FALSE) :
        ts \in { now } \cup { t \in { now - RateLimitWindow } : t >= 0 },
        typ \in { "rate_limit_exceeded", "ddos_detected", "login_failure" },
        ip \in IPs }

AnalyzeRL ==
    /\ \E event \in RLInputs : RLCall(event)
    /\ UNCHANGED << envVars, metVars, poolVars, clockVars, riskVars, bfVars, saVars, audVars, ddosVars >>

TickRL ==
    /\ \E d \in { 30, RateLimitWindow } : Tick(d, MaxClockHour)
    /\ UNCHANGED << envVars, metVars, poolVars, riskVars, bfVars, rlVars, saVars, audVars, ddosVars >>

-----------------------------------------------------------------------------
(* SuspiciousActivityAnalyzer, part_012:554-644 *)

\* part_012:582  time.Now().Add(-1 * time.Hour)
SuspiciousWindow == 60
\* part_012:592  len(recentEvents) >= 10
SuspiciousMinEvents == 10
\* part_012:603  e.RiskScore > 50
HighRiskScore == 50
\* part_012:609  blockedCount > 3
SuspiciousBlockedLimit == 3
\* part_012:609  highRiskCount > 5
SuspiciousHighRiskLimit == 5

\* the EventIDs of an alert: the IDs of the events, in order
EventIDsOf(s) == [ i \in 1..Len(s) |-> s[i].ID ]

\* a slip of the key: the source address also when a user id is present
SuspiciousAnalyze_KeyIP(m, event, t) ==
    LET userKey == event.IPAddress
        appended == Append(MapGet(m, userKey), event)
        cutoff == t - SuspiciousWindow
        recentEvents == SelectSeq(appended, LAMBDA e : After(e.Timestamp, cutoff))
        blockedCount == Len(SelectSeq(recentEvents, LAMBDA e : e.Blocked))
        highRiskCount == Len(SelectSeq(recentEvents, LAMBDA e : e.RiskScore > HighRiskScore))
    IN  [ state |-> MapPut(m, userKey, recentEvents),
          alerts |->
            IF /\ Len(recentEvents) >= SuspiciousMinEvents
               /\ \/ blockedCount > SuspiciousBlockedLimit
                  \/ highRiskCount > SuspiciousHighRiskLimit
            THEN << SecurityAlert("Suspicious Activity Detected", "medium",
                                  EventIDsOf(recentEvents), 60, userKey,
                                  Len(recentEvents)) >>
            ELSE << >> ]

\* a slip of the high-risk test: >= 50 for > 50
SuspiciousAnalyze_Ge(m, event, t) ==
    LET userKey == IF event.UserID # "" THEN event.UserID ELSE event.IPAddress
        appended == Append(MapGet(m, userKey), event)
        cutoff == t - SuspiciousWindow
        recentEvents == SelectSeq(appended, LAMBDA e : After(e.Timestamp, cutoff))
        blockedCount == Len(SelectSeq(recentEvents, LAMBDA e : e.Blocked))
        highRiskCount == Len(SelectSeq(recentEvents, LAMBDA e : e.RiskScore >= HighRiskScore))
    IN  [ state |-> MapPut(m, userKey, recentEvents),
          alerts |->
            IF /\ Len(recentEvents) >= SuspiciousMinEvents
               /\ \/ blockedCount > SuspiciousBlockedLimit
                  \/ highRiskCount > SuspiciousHighRiskLimit
            THEN << SecurityAlert("Suspicious Activity Detected", "medium",
                                  EventIDsOf(recentEvents), 60, userKey,
                                  Len(recentEvents)) >>
            ELSE << >> ]

\* Analyze(event) at time t on the map m.  The state is never cleared: the
\* key keeps recentEvents whether or not an alert is returned.
SuspiciousAnalyze(m, event, t) ==
    LET userKey == IF event.UserID # "" THEN event.UserID ELSE event.IPAddress
        appended == Append(MapGet(m, userKey), event)
        cutoff == t - SuspiciousWindow
        recentEvents == SelectSeq(appended, LAMBDA e : After(e.Timestamp, cutoff))
        blockedCount == Len(SelectSeq(recentEvents, LAMBDA e : e.Blocked))
        highRiskCount == Len(SelectSeq(recentEvents, LAMBDA e : e.RiskScore > HighRiskScore))
    IN  [ state |-> MapPut(m, userKey, recentEvents),
          alerts |->
            IF /\ Len(recentEvents) >= SuspiciousMinEvents
               /\ \/ blockedCount > SuspiciousBlockedLimit
                  \/ highRiskCount > SuspiciousHighRiskLimit
            THEN << SecurityAlert("Suspicious Activity Detected", "medium",
                                  EventIDsOf(recentEvents), 60, userKey,
                                  Len(recentEvents)) >>
            ELSE << >> ]

\* the keys an event can have
Keys == IPs \cup Users

\* the actor an event is attributed to: the user when there is one, else
\* the source address
ActorOf(event) == IF event.UserID \in Users THEN event.UserID ELSE event.IPAddress

InitSA ==
    /\ userActivity = << >>
    /\ saHist = [ k \in Keys |-> << >> ]
    /\ saCalls = 0
    /\ saAlerted = [ k \in Keys |-> FALSE ]

\* one call saa.Analyze(event), with its history
SACall(event) ==
    LET res == SuspiciousAnalyze(userActivity, event, now)
        key == ActorOf(event)
    IN  /\ userActivity' = res.state
        /\ saHist' = [ saHist EXCEPT ![key] = Append(@, event) ]
        /\ saCalls' = saCalls + 1
        /\ saAlerted' = [ saAlerted EXCEPT ![key] = res.alerts # << >> ]

\* the events the suspicious-activity analyzer is driven with: a user's
\* events (plain, blocked, high-risk; 50 is the highest score that is not
\* high-risk) and blocked high-risk events of an address without a user
SAInputs ==
    { SecurityEvent("e", now, "access_denied", "medium", "u1", "10.0.0.1", 50, FALSE),
      SecurityEvent("e", now, "access_denied", "medium", "u1", "10.0.0.1", 50, TRUE),
      SecurityEvent("e", now, "access_denied", "medium", "u1", "10.0.0.1", 51, FALSE),
      SecurityEvent("e", now, "ddos_detected", "critical", "", "10.0.0.1", 95, TRUE) }

AnalyzeSA ==
    /\ \E event \in SAInputs :
         /\ saCalls < MaxSAEvents
         /\ SACall(event)
    /\ UNCHANGED << envVars, metVars, poolVars, clockVars, riskVars, bfVars, rlVars, audVars, ddosVars >>

\* an event stamped ts is less than one hour old at time t
InLastHour(ts, t) == t - ts < 60

\* time passes; the history drops the events that are an hour old
TickSA ==
    /\ \E d \in { SuspiciousWindow } : Tick(d, MaxClockHour)
    /\ saHist' = [ k \in Keys |->
                     SelectSeq(saHist[k], LAMBDA e : InLastHour(e.Timestamp, now')) ]
    /\ UNCHANGED << userActivity, saCalls, saAlerted >>
    /\ UNCHANGED << envVars, metVars, poolVars, riskVars, bfVars, rlVars, audVars, ddosVars >>

-----------------------------------------------------------------------------
(* SecurityAuditor: LogEvent and processEvents, part_012:156-408 *)

\* the goroutines that call LogEvent
Producers == { "p1", "p2" }

\* uuid.New().String(): a fresh identifier per call
GenIDs == << "uuid-1", "uuid-2", "uuid-3", "uuid-4", "uuid-5", "uuid-6",
            "uuid-7", "uuid-8", "uuid-9", "uuid-10", "uuid-11", "uuid-12" >>

\* event.Timestamp.IsZero(): the zero time.Time, before every clock value
ZeroTime == 0 - 1

\* the events LogEvent is called with: what LogLoginSuccess, LogLoginFailure
\* and LogDDoSDetected build, an event whose caller set ID and RiskScore, and
\* one whose caller left Severity empty
AuditInputs ==
    { SecurityEvent("", ZeroTime, "login_success", "low", "u1", "10.0.0.1", 0, FALSE),
      SecurityEvent("", ZeroTime, "login_failure", "medium", "", "10.0.0.1", 0, FALSE),
      SecurityEvent("", ZeroTime, "ddos_detected", "critical", "", "10.0.0.1", 0, TRUE),
      SecurityEvent("e1", ZeroTime, "access_denied", "medium", "u1", "10.0.0.2", 150, FALSE),
      SecurityEvent("", ZeroTime, "unusual_activity", "", "", "10.0.0.2", 0, FALSE) }

\* the number of LogEvent calls followed when one address keeps sending
\* the same event: the 10th that reaches the analyzers returns alerts
MaxOrdered == 11

\* a behaviour of part "processEvents" follows the worker through a long
\* series of one event, what LogDDoSDetected builds, with room for two
\* events in the channel; the other behaviours follow a few events of
\* every kind
LogInputs ==
    IF part = "processEvents"
    THEN { SecurityEvent("", ZeroTime, "ddos_detected", "critical", "", "10.0.0.1", 0, TRUE) }
    ELSE AuditInputs
EventLimit == IF part = "processEvents" THEN MaxOrdered ELSE MaxEvents
QueueCap == IF part = "processEvents" THEN EventQueueCap + 1 ELSE EventQueueCap

\* the logger level an entry of this severity is written at, "" when the
\* switch on the severity matches no case and nothing is written
LevelOf(severity) ==
    CASE severity = "critical" -> "error"
      [] severity = "high" -> "warn"
      [] severity = "medium" -> "info"
      [] severity = "low" -> "debug"
      [] OTHER -> ""

\* logger.SetLevel (main.go:36-39): InfoLevel, DebugLevel with LOG_LEVEL=debug
LogLevels == { "info", "debug" }

\* the logger writes an entry of this level: Error, Warn and Info always,
\* Debug only at DebugLevel
IsLevelEnabled(level) ==
    /\ level # ""
    /\ level = "debug" => logLevel = "debug"

\* logEventDirectly(event), part_012:340-378: the entries it writes.  sub is
\* the number of the LogEvent call the event came from (history).
logEventDirectly(sub, event) ==
    IF ~IsLevelEnabled(LevelOf(event.Severity))
    THEN << >>
    ELSE << [ kind |-> "security_event", level |-> LevelOf(event.Severity),
              id |-> event.ID, severity |-> event.Severity,
              risk_score |-> event.RiskScore, sub |-> sub ] >>

\* logAlert(alert), part_012:380-408: the entries it writes for the alerts
\* an analyzer returned while the worker held the event of call sub
logAlert(sub, alerts) ==
    IF alerts = << >> \/ ~IsLevelEnabled(LevelOf(alerts[1].Severity))
    THEN << >>
    ELSE << [ kind |-> "security_alert", level |-> LevelOf(alerts[1].Severity),
              id |-> alerts[1].Title, severity |-> alerts[1].Severity,
              risk_score |-> alerts[1].RiskScore, sub |-> sub ] >>

\* GetSecurityStats(), part_012:464-473: the map it returns
GetSecurityStats ==
    [ total_events |-> 0, blocked_requests |-> 0, high_risk_events |-> 0,
      active_threats |-> 0 ]

\* LogEvent's defaults and risk score, part_012:176-190, for call number sub
\* at time t
Normalize(event, sub, t) ==
    LET withID == IF event.ID = "" THEN [ event EXCEPT !.ID = GenIDs[sub] ] ELSE event
        withTime == IF withID.Timestamp = ZeroTime
                    THEN [ withID EXCEPT !.Timestamp = t ]
                    ELSE withID
    IN  IF withTime.RiskScore = 0
        THEN [ withTime EXCEPT !.RiskScore = calculateRiskScore(withTime) ]
        ELSE withTime

NoEvent == [ sub |-> 0, event |-> SecurityEvent("", ZeroTime, "", "", "", "", 0, FALSE) ]

InitAuditor ==
    /\ events = << >>
    /\ lpc = [ p \in Producers |-> "idle" ]
    /\ lev = [ p \in Producers |-> NoEvent ]
    /\ lsteps = [ p \in Producers |-> 0 ]
    /\ wpc = "receive"
    /\ wev = NoEvent
    /\ sink = << >>
    /\ nextSub = 0
    /\ calls = << >>

\* history: the place of the next event sent to the channel ("enq") or
\* received from it ("deq"), counted from 1
NextInOrder(field) ==
    Cardinality({ n \in 1..Len(calls) : calls[n][field] # 0 }) + 1

\* LogEvent(event) is called: defaults and risk score (part_012:176-190)
LogEventBegin(p) ==
    /\ lpc[p] = "idle"
    /\ nextSub < EventLimit
    /\ \E event \in LogInputs :
         /\ lev' = [ lev EXCEPT ![p] = [ sub |-> nextSub + 1,
                                         event |-> Normalize(event, nextSub + 1, now) ] ]
         /\ calls' = Append(calls, [ event |-> event, path |-> "", analyzed |-> FALSE,
                                     by |-> {}, enq |-> 0, deq |-> 0 ])
    /\ nextSub' = nextSub + 1
    /\ lpc' = [ lpc EXCEPT ![p] = "select" ]
    /\ lsteps' = [ lsteps EXCEPT ![p] = 1 ]
    /\ UNCHANGED << events, wpc, wev, sink >>
    /\ UNCHANGED << envVars, metVars, poolVars, clockVars, riskVars, bfVars, rlVars, saVars, ddosVars, logLevel, faulty >>

\* a send that waits for room in the channel instead of taking the default case
LogEventFull_Wait(p) ==
    /\ lpc[p] = "select"
    /\ Len(events) >= QueueCap
    /\ FALSE
    /\ UNCHANGED << events, lpc, lev, lsteps, wpc, wev, sink, nextSub, calls >>
    /\ UNCHANGED << envVars, metVars, poolVars, clockVars, riskVars, bfVars, rlVars, saVars, ddosVars, logLevel, faulty >>

\* select { case sa.events <- event: }: the channel has room (part_012:194)
LogEventSend(p) ==
    /\ lpc[p] = "select"
    /\ Len(events) < QueueCap
    /\ events' = Append(events, lev[p])
    /\ calls' = [ calls EXCEPT ![lev[p].sub].path = "channel",
                                ![lev[p].sub].enq = NextInOrder("enq") ]
    /\ lpc' = [ lpc EXCEPT ![p] = "idle" ]
    /\ lsteps' = [ lsteps EXCEPT ![p] = @ + 1 ]
    /\ UNCHANGED << lev, wpc, wev, sink, nextSub >>
    /\ UNCHANGED << envVars, metVars, poolVars, clockVars, riskVars, bfVars, rlVars, saVars, ddosVars, logLevel, faulty >>

\* select { default: }: the channel is full (part_012:195-197)
LogEventFull(p) ==
    /\ lpc[p] = "select"
    /\ Len(events) >= QueueCap
    /\ lpc' = [ lpc EXCEPT ![p] = "direct" ]
    /\ calls' = [ calls EXCEPT ![lev[p].sub].path = "direct" ]
    /\ lsteps' = [ lsteps EXCEPT ![p] = @ + 1 ]
    /\ UNCHANGED << events, lev, wpc, wev, sink, nextSub >>
    /\ UNCHANGED << envVars, metVars, poolVars, clockVars, riskVars, bfVars, rlVars, saVars, ddosVars, logLevel, faulty >>

\* sa.logEventDirectly(event) by the caller (part_012:197)
LogEventDirect(p) ==
    /\ lpc[p] = "direct"
    /\ sink' = sink \o logEventDirectly(lev[p].sub, lev[p].event)
    /\ lpc' = [ lpc EXCEPT ![p] = "idle" ]
    /\ lsteps' = [ lsteps EXCEPT ![p] = @ + 1 ]
    /\ UNCHANGED << events, lev, wpc, wev, nextSub, calls >>
    /\ UNCHANGED << envVars, metVars, poolVars, clockVars, riskVars, bfVars, rlVars, saVars, ddosVars, logLevel, faulty >>

\* the steps of a LogEvent call after its first
LogEventStep(p) == LogEventSend(p) \/ LogEventFull(p) \/ LogEventDirect(p)

\* a receive that takes the event sent last
WorkerReceive_Lifo ==
    /\ wpc = "receive"
    /\ events # << >>
    /\ wev' = events[Len(events)]
    /\ events' = SubSeq(events, 1, Len(events) - 1)
    /\ calls' = [ calls EXCEPT ![events[Len(events)].sub].deq = NextInOrder("deq") ]
    /\ wpc' = "log"
    /\ UNCHANGED << lpc, lev, lsteps, sink, nextSub >>
    /\ UNCHANGED << envVars, metVars, poolVars, clockVars, riskVars, bfVars, rlVars, saVars, ddosVars, logLevel, faulty >>

\* for event := range sa.events (part_012:327)
WorkerReceive ==
    /\ wpc = "receive"
    /\ events # << >>
    /\ wev' = Head(events)
    /\ events' = Tail(events)
    /\ calls' = [ calls EXCEPT ![Head(events).sub].deq = NextInOrder("deq") ]
    /\ wpc' = "log"
    /\ UNCHANGED << lpc, lev, lsteps, sink, nextSub >>
    /\ UNCHANGED << envVars, metVars, poolVars, clockVars, riskVars, bfVars, rlVars, saVars, ddosVars, logLevel, faulty >>

\* sa.logEventDirectly(event) by the worker (part_012:329)
WorkerLog ==
    /\ wpc = "log"
    /\ sink' = sink \o logEventDirectly(wev.sub, wev.event)
    /\ wpc' = "BruteForce"
    /\ UNCHANGED << events, lpc, lev, lsteps, wev, nextSub, calls >>
    /\ UNCHANGED << envVars, metVars, poolVars, clockVars, riskVars, bfVars, rlVars, saVars, ddosVars, logLevel, faulty >>

\* sa.analyzers, in the order NewSecurityAuditor registers them
\* (part_012:161-165)
Analyzers == << "BruteForce", "SuspiciousActivity", "RateLimit" >>

\* what Analyze returns: (*SecurityAlert, error)
AnalyzeResult(alerts, err) == [ alerts |-> alerts, err |-> err ]

\* what an analyzer whose Analyze fails may return: an error, with or
\* without an alert.  The three analyzers of this package always return a
\* nil error; the worker reaches them through the SecurityAnalyzer interface
\* (part_012:139-141), which allows one.
FaultyResults(name) ==
    { AnalyzeResult(<< >>, TRUE),
      AnalyzeResult(<< SecurityAlert("Failed " \o name, "high", << >>, 0, "", 0) >>, TRUE) }

\* a worker that logs the alert whatever the error
alertsToLog_IgnoreErr(res) == res.alerts

\* if alert, err := analyzer.Analyze(event); err == nil && alert != nil
\* (part_012:333): the alerts handed to logAlert
alertsToLog(res) == IF ~res.err /\ res.alerts # << >> THEN res.alerts ELSE << >>

\* a worker that leaves the loop over the analyzers on an error
AfterAnalyzer_Break(i, res) ==
    IF res.err \/ i = Len(Analyzers) THEN "receive" ELSE Analyzers[i + 1]

\* where the worker goes after analyzers[i]: to the next analyzer, after the
\* last to the next event (part_012:332-336 has no break or return)
AfterAnalyzer(i, res) ==
    IF i = Len(Analyzers) THEN "receive" ELSE Analyzers[i + 1]

\* the history of call sub after analyzers[i] was called with its event
Analyzed(sub, i) ==
    [ calls EXCEPT ![sub].by = @ \cup { Analyzers[i] },
                   ![sub].analyzed = (i = Len(Analyzers)) ]

\* analyzers[0].Analyze(event) and logAlert (part_012:332-336, 162)
WorkerBruteForce ==
    /\ wpc = "BruteForce"
    /\ \E res \in IF "BruteForce" \in faulty
                  THEN FaultyResults("BruteForce")
                  ELSE { AnalyzeResult(BruteForceAnalyze(failedLogins, wev.event, now).alerts,
                                       FALSE) } :
         /\ IF res.err THEN UNCHANGED bfVars ELSE BFCall(wev.event)
         /\ sink' = sink \o logAlert(wev.sub, alertsToLog(res))
         /\ wpc' = AfterAnalyzer(1, res)
    /\ calls' = Analyzed(wev.sub, 1)
    /\ UNCHANGED << events, lpc, lev, lsteps, wev, nextSub >>
    /\ UNCHANGED << envVars, metVars, poolVars, clockVars, riskVars, rlVars, saVars, ddosVars, logLevel, faulty >>

\* analyzers[1].Analyze(event) and logAlert (part_012:332-336, 163)
WorkerSuspicious ==
    /\ wpc = "SuspiciousActivity"
    /\ \E res \in IF "SuspiciousActivity" \in faulty
                  THEN FaultyResults("SuspiciousActivity")
                  ELSE { AnalyzeResult(SuspiciousAnalyze(userActivity, wev.event, now).alerts,
                                       FALSE) } :
         /\ IF res.err THEN UNCHANGED saVars ELSE SACall(wev.event)
         /\ sink' = sink \o logAlert(wev.sub, alertsToLog(res))
         /\ wpc' = AfterAnalyzer(2, res)
    /\ calls' = Analyzed(wev.sub, 2)
    /\ UNCHANGED << events, lpc, lev, lsteps, wev, nextSub >>
    /\ UNCHANGED << envVars, metVars, poolVars, clockVars, riskVars, bfVars, rlVars, ddosVars, logLevel, faulty >>

\* analyzers[2].Analyze(event) and logAlert (part_012:332-336, 164); the
\* loop goes on to the next event
WorkerRateLimit ==
    /\ wpc = "RateLimit"
    /\ \E res \in IF "RateLimit" \in faulty
                  THEN FaultyResults("RateLimit")
                  ELSE { AnalyzeResult(RateLimitAnalyze(rateLimitEvents, wev.event, now).alerts,
                                       FALSE) } :
         /\ IF res.err THEN UNCHANGED rlVars ELSE RLCall(wev.event)
         /\ sink' = sink \o logAlert(wev.sub, alertsToLog(res))
         /\ wpc' = AfterAnalyzer(3, res)
    /\ calls' = Analyzed(wev.sub, 3)
    /\ UNCHANGED << events, lpc, lev, lsteps, wev, nextSub >>
    /\ UNCHANGED << envVars, metVars, poolVars, clockVars, riskVars, bfVars, saVars, ddosVars, logLevel, faulty >>

-----------------------------------------------------------------------------
(* DDoSProtection, src/internal/middleware/ddos.go *)

\* ddos.go:33  config.MaxRequests = 100
DefaultMaxRequests == 100
\* ddos.go:36  config.WindowDuration = 1 * time.Minute
DefaultWindowDuration == 1
\* ddos.go:39  config.BlockDuration = 5 * time.Minute
DefaultBlockDuration == 5

DDoSConfig(max, window, block) ==
    [ MaxRequests |-> max, WindowDuration |-> window, BlockDuration |-> block ]

\* NewDDoSProtection(config), ddos.go:31-58: a zero field takes its default.
\* The cleanup goroutine it starts is the action Cleanup; CleanupInterval
\* only sets when the sweeps happen, which the model leaves open.
NewDDoSProtection(config) ==
    [ maxRequests |-> IF config.MaxRequests = 0 THEN DefaultMaxRequests
                      ELSE config.MaxRequests,
      windowDuration |-> IF config.WindowDuration = 0 THEN DefaultWindowDuration
                         ELSE config.WindowDuration,
      blockDuration |-> IF config.BlockDuration = 0 THEN DefaultBlockDuration
                        ELSE config.BlockDuration ]

\* the configurations the tracker is built with: the defaults (clock unit
\* one minute), the one of TestDDoS_BlockAfterThreshold, one whose window
\* is longer than twice its block duration, and one that admits 2 requests
DDoSConfigs ==
    { DDoSConfig(0, 0, 0), DDoSConfig(1, 1, 1), DDoSConfig(1, 3, 1),
      DDoSConfig(2, 2, 1) }

\* the goroutines that serve requests: one, or two in the behaviours of
\* concurrent requests
Handlers == IF part = "Protect" THEN { "h1", "h2" } ELSE { "h1" }

\* d.mutex (sync.RWMutex).  Every method but GetStats takes the lock once
\* and releases it before it returns, so its locked section is one step;
\* GetStats holds the read lock from ddos.go:189 to its return.  Lock()
\* proceeds when no reader holds the lock; RLock() proceeds unless a
\* Lock() call is waiting.
LockFree == statsPC = "idle"
RLockFree == ~writerWaiting

InitMutex ==
    /\ statsPC = "idle"
    /\ statsNow = 0
    /\ writerWaiting = FALSE

\* isBlocked(ip, now), ddos.go:97-115
isBlocked(ip, t) ==
    /\ ip \in DOMAIN requests
    /\ Len(requests[ip]) > 0
    /\ t - requests[ip][Len(requests[ip])] < cfg.blockDuration

\* a threshold test that blocks at maxRequests already
shouldBlock_AtLeast(ip, t) ==
    /\ ip \in DOMAIN requests
    /\ LET windowStart == t - cfg.windowDuration
           count == Len(SelectSeq(requests[ip], LAMBDA reqTime : After(reqTime, windowStart)))
       IN  count >= cfg.maxRequests

\* shouldBlock(ip, now), ddos.go:127-147
shouldBlock(ip, t) ==
    /\ ip \in DOMAIN requests
    /\ LET windowStart == t - cfg.windowDuration
           count == Len(SelectSeq(requests[ip], LAMBDA reqTime : After(reqTime, windowStart)))
       IN  count > cfg.maxRequests

\* a sweep that keeps the addresses it has emptied
CleanupSweep_KeepEmpty(m, t) ==
    LET cutoff == t - cfg.blockDuration * 2
    IN  [ ip \in DOMAIN m |-> SelectSeq(m[ip], LAMBDA reqTime : After(reqTime, cutoff)) ]

\* one sweep of cleanup at time t, ddos.go:164-183: the map afterwards
CleanupSweep(m, t) ==
    LET cutoff == t - cfg.blockDuration * 2
        newRequests(ip) == SelectSeq(m[ip], LAMBDA reqTime : After(reqTime, cutoff))
    IN  [ ip \in { k \in DOMAIN m : Len(newRequests(k)) # 0 } |-> newRequests(ip) ]

\* a slip of the window test: every stored timestamp counted as active
GetStats_AllStored(t) ==
    LET RECURSIVE Sum(_)
        Sum(S) == IF S = {} THEN 0
                  ELSE LET ip == CHOOSE x \in S : TRUE IN Len(requests[ip]) + Sum(S \ {ip})
    IN  [ total_ips |-> Cardinality(DOMAIN requests),
          active_requests |-> Sum(DOMAIN requests),
          blocked_ips |-> Cardinality({ ip \in DOMAIN requests : isBlocked(ip, t) }) ]

\* GetStats(), ddos.go:188-225, at time t
GetStats(t) ==
    LET windowStart == t - cfg.windowDuration
        active(ip) == Len(SelectSeq(requests[ip], LAMBDA reqTime : After(reqTime, windowStart)))
        RECURSIVE Sum(_)
        Sum(S) == IF S = {} THEN 0
                  ELSE LET ip == CHOOSE x \in S : TRUE IN active(ip) + Sum(S \ {ip})
    IN  [ total_ips |-> Cardinality(DOMAIN requests),
          active_requests |-> Sum(DOMAIN requests),
          blocked_ips |-> Cardinality({ ip \in DOMAIN requests : isBlocked(ip, t) }) ]

\* no GetStats call yet
NoStats == [ total_ips |-> 0, active_requests |-> 0, blocked_ips |-> 0 ]

NoContext == [ ip |-> "", now |-> 0, prev |-> 0 - 1, before |-> 0, nth |-> 0,
               count |-> 0 ]

NoDecision == [ done |-> FALSE, ip |-> "", t |-> 0, decision |-> "",
                prev |-> 0 - 1, before |-> 0, nth |-> 0, count |-> 0,
                served |-> 0 ]

\* the tracker as NewDDoSProtection leaves it, for one of the configurations
InitDDoS ==
    /\ cfg \in { NewDDoSProtection(c) : c \in DDoSConfigs }
    /\ requests = << >>
    /\ hpc = [ h \in Handlers |-> "idle" ]
    /\ hctx = [ h \in Handlers |-> NoContext ]
    /\ ddArrivals = [ ip \in IPs |-> << >> ]
    /\ ddRecorded = [ ip \in IPs |-> << >> ]
    /\ ddAllowed = [ ip \in IPs |-> << >> ]
    /\ ddExceeded = [ ip \in IPs |-> FALSE ]
    /\ ddLast = NoDecision
    /\ ddCalls = 0
    /\ ddStats = NoStats
    /\ InitMutex

\* the tracker as NewDDoSProtection leaves it, for one of configs
InitProtect(configs) ==
    /\ cfg \in { NewDDoSProtection(c) : c \in configs }
    /\ requests = << >>
    /\ hpc = [ h \in Handlers |-> "idle" ]
    /\ hctx = [ h \in Handlers |-> NoContext ]
    /\ ddArrivals = [ ip \in IPs |-> << >> ]
    /\ ddRecorded = [ ip \in IPs |-> << >> ]
    /\ ddAllowed = [ ip \in IPs |-> << >> ]
    /\ ddExceeded = [ ip \in IPs |-> FALSE ]
    /\ ddLast = NoDecision
    /\ ddCalls = 0
    /\ ddStats = NoStats
    /\ InitMutex

\* the number of timestamps of s in the window that ends at t
InWindowCount(s, t) == Cardinality({ i \in 1..Len(s) : t - s[i] < cfg.windowDuration })

\* the decision of a Protect call, for the history
Decision(h, d) ==
    [ done |-> TRUE, ip |-> hctx[h].ip, t |-> hctx[h].now, decision |-> d,
      prev |-> hctx[h].prev, before |-> hctx[h].before, nth |-> hctx[h].nth,
      count |-> hctx[h].count, served |-> now ]

\* a request arrives: clientIP := c.ClientIP(); now := time.Now()
\* (ddos.go:63-64).  The history notes the address's most recent recorded
\* timestamp (prev, -1 when none), its earlier calls inside the window
\* (before), the number of this call (nth) and the recorded timestamps
\* inside the window, this request included (count).
ProtectBegin(h) ==
    /\ hpc[h] = "idle"
    /\ ddCalls < MaxProtectCalls
    /\ \E ip \in IPs :
         LET arrivals == Append(ddArrivals[ip], now)
         IN  /\ hctx' = [ hctx EXCEPT ![h] =
                            [ ip |-> ip, now |-> now,
                              prev |-> IF ddRecorded[ip] = << >> THEN 0 - 1
                                       ELSE ddRecorded[ip][Len(ddRecorded[ip])],
                              before |-> InWindowCount(ddArrivals[ip], now),
                              nth |-> Len(arrivals),
                              count |-> InWindowCount(ddRecorded[ip], now) + 1 ] ]
             /\ ddArrivals' = [ ddArrivals EXCEPT ![ip] = arrivals ]
             /\ ddExceeded' = [ ddExceeded EXCEPT ![ip] =
                                  @ \/ InWindowCount(arrivals, now) > cfg.maxRequests ]
    /\ hpc' = [ hpc EXCEPT ![h] = "isBlocked" ]
    /\ ddCalls' = ddCalls + 1
    /\ UNCHANGED << cfg, requests, ddRecorded, ddAllowed, ddLast >>
    /\ UNCHANGED << envVars, metVars, poolVars, clockVars, riskVars, bfVars, rlVars, saVars, audVars, statsVars >>

\* a block check that records the request it denies
ProtectIsBlocked_Record(h) ==
    /\ hpc[h] = "isBlocked"
    /\ RLockFree
    /\ IF isBlocked(hctx[h].ip, hctx[h].now)
       THEN /\ hpc' = [ hpc EXCEPT ![h] = "idle" ]
            /\ ddLast' = Decision(h, "deny")
            /\ requests' = MapPut(requests, hctx[h].ip,
                                  Append(MapGet(requests, hctx[h].ip), hctx[h].now))
       ELSE /\ hpc' = [ hpc EXCEPT ![h] = "recordRequest" ]
            /\ ddLast' = ddLast
            /\ requests' = requests
    /\ UNCHANGED << cfg, hctx, ddArrivals, ddRecorded, ddAllowed, ddExceeded, ddCalls >>
    /\ UNCHANGED << envVars, metVars, poolVars, clockVars, riskVars, bfVars, rlVars, saVars, audVars, statsVars >>

\* if d.isBlocked(clientIP, now) { 429; return } (ddos.go:67-75)
ProtectIsBlocked(h) ==
    /\ hpc[h] = "isBlocked"
    /\ RLockFree
    /\ IF isBlocked(hctx[h].ip, hctx[h].now)
       THEN /\ hpc' = [ hpc EXCEPT ![h] = "idle" ]
            /\ ddLast' = Decision(h, "deny")
       ELSE /\ hpc' = [ hpc EXCEPT ![h] = "recordRequest" ]
            /\ ddLast' = ddLast
    /\ UNCHANGED << cfg, requests, hctx, ddArrivals, ddRecorded, ddAllowed, ddExceeded, ddCalls >>
    /\ UNCHANGED << envVars, metVars, poolVars, clockVars, riskVars, bfVars, rlVars, saVars, audVars, statsVars >>

\* d.recordRequest(clientIP, now) (ddos.go:78, 118-124)
ProtectRecord(h) ==
    /\ hpc[h] = "recordRequest"
    /\ LockFree
    /\ requests' = MapPut(requests, hctx[h].ip,
                          Append(MapGet(requests, hctx[h].ip), hctx[h].now))
    /\ ddRecorded' = [ ddRecorded EXCEPT ![hctx[h].ip] = Append(@, hctx[h].now) ]
    /\ ddAllowed' = ddAllowed
    /\ hpc' = [ hpc EXCEPT ![h] = "shouldBlock" ]
    /\ UNCHANGED << cfg, hctx, ddArrivals, ddExceeded, ddLast, ddCalls >>
    /\ UNCHANGED << envVars, metVars, poolVars, clockVars, riskVars, bfVars, rlVars, saVars, audVars, statsVars >>

\* if d.shouldBlock(clientIP, now) { ... } else c.Next() (ddos.go:81, 92)
ProtectShouldBlock(h) ==
    /\ hpc[h] = "shouldBlock"
    /\ RLockFree
    /\ IF shouldBlock(hctx[h].ip, hctx[h].now)
       THEN /\ hpc' = [ hpc EXCEPT ![h] = "blockIP" ]
            /\ ddLast' = ddLast
            /\ ddAllowed' = ddAllowed
       ELSE /\ hpc' = [ hpc EXCEPT ![h] = "idle" ]
            /\ ddLast' = Decision(h, "allow")
            /\ ddAllowed' = [ ddAllowed EXCEPT ![hctx[h].ip] = Append(@, hctx[h].now) ]
    /\ UNCHANGED << cfg, requests, hctx, ddArrivals, ddRecorded, ddExceeded, ddCalls >>
    /\ UNCHANGED << envVars, metVars, poolVars, clockVars, riskVars, bfVars, rlVars, saVars, audVars, statsVars >>

\* d.blockIP(clientIP, now); 429; return (ddos.go:82-89, 150-156)
ProtectBlockIP(h) ==
    /\ hpc[h] = "blockIP"
    /\ LockFree
    /\ requests' = MapPut(requests, hctx[h].ip,
                          Append(MapGet(requests, hctx[h].ip), hctx[h].now))
    /\ ddRecorded' = [ ddRecorded EXCEPT ![hctx[h].ip] = Append(@, hctx[h].now) ]
    /\ ddAllowed' = ddAllowed
    /\ hpc' = [ hpc EXCEPT ![h] = "idle" ]
    /\ ddLast' = Decision(h, "deny")
    /\ UNCHANGED << cfg, hctx, ddArrivals, ddExceeded, ddCalls >>
    /\ UNCHANGED << envVars, metVars, poolVars, clockVars, riskVars, bfVars, rlVars, saVars, audVars, statsVars >>

\* the ticker fires: one sweep under the write lock (ddos.go:163-184)
Cleanup ==
    /\ LockFree
    /\ requests' = CleanupSweep(requests, now)
    /\ UNCHANGED << cfg, hpc, hctx, ddArrivals, ddRecorded, ddAllowed, ddExceeded, ddLast, ddCalls >>
    /\ UNCHANGED << envVars, metVars, poolVars, clockVars, riskVars, bfVars, rlVars, saVars, audVars, statsVars >>

TickDD ==
    /\ \E d \in { 1, cfg.blockDuration } : Tick(d, MaxClockDD)
    /\ UNCHANGED << envVars, metVars, poolVars, riskVars, bfVars, rlVars, saVars, audVars, ddosVars >>

\* GetStats: d.mutex.RLock(); now := time.Now() (ddos.go:189-192)
GetStatsBegin ==
    /\ statsPC = "idle"
    /\ RLockFree
    /\ statsPC' = "reading"
    /\ statsNow' = now
    /\ UNCHANGED << ddStats, writerWaiting >>
    /\ UNCHANGED << cfg, requests, hpc, hctx, ddArrivals, ddRecorded, ddAllowed, ddExceeded, ddLast, ddCalls >>
    /\ UNCHANGED << envVars, metVars, poolVars, clockVars, riskVars, bfVars, rlVars, saVars, audVars >>

\* while GetStats holds the read lock, recordRequest, blockIP or the cleanup
\* tick calls d.mutex.Lock() (ddos.go:119, 151, 164) and waits
LockWait ==
    /\ statsPC = "reading"
    /\ ~writerWaiting
    /\ writerWaiting' = TRUE
    /\ UNCHANGED << ddStats, statsPC, statsNow >>
    /\ UNCHANGED << cfg, requests, hpc, hctx, ddArrivals, ddRecorded, ddAllowed, ddExceeded, ddLast, ddCalls >>
    /\ UNCHANGED << envVars, metVars, poolVars, clockVars, riskVars, bfVars, rlVars, saVars, audVars >>

\* GetStats: the loop over d.requests, which calls d.isBlocked for every
\* tracked address and so takes the read lock again (ddos.go:207-219, 98),
\* and the return, which releases the lock and lets a waiting Lock() in
GetStatsReturn ==
    /\ statsPC = "reading"
    /\ DOMAIN requests # {} => RLockFree
    /\ ddStats' = GetStats(statsNow)
    /\ statsPC' = "idle"
    /\ statsNow' = 0
    /\ writerWaiting' = FALSE
    /\ UNCHANGED << cfg, requests, hpc, hctx, ddArrivals, ddRecorded, ddAllowed, ddExceeded, ddLast, ddCalls >>
    /\ UNCHANGED << envVars, metVars, poolVars, clockVars, riskVars, bfVars, rlVars, saVars, audVars >>

-----------------------------------------------------------------------------
(* Pool, internal/worker/pool.go *)

\* the goroutines that call AddJob, and the workers Start launches
\* (main.go:101 launches 10)
Adders == { "a1", "a2" }
PoolWorkers == { "w1", "w2" }

\* pool.go:22  make(chan Job, 100), scaled down
JobQueueCap == 2
\* the number of AddJob calls followed
MaxJobs == 5
\* the processEvent goroutines followed at a time
MaxProcessing == 3

\* a job: the number of the AddJob call that brought it, and what it is: a
\* function that returns, or EventService.ProcessEvents (main.go:105-107)
Job(id, kind) == [ id |-> id, kind |-> kind ]
NoJob == Job(0, "")

\* the jobs the callers bring: main's only job is ProcessEvents
JobKinds == IF part = "main" THEN { "ProcessEvents" } ELSE { "func" }

\* NewPool (pool.go:19-26); no worker is started yet
InitPool ==
    /\ jobQueue = << >>
    /\ quit = "open"
    /\ wkpc = [ w \in PoolWorkers |-> "new" ]
    /\ ajpc = [ a \in Adders |-> "idle" ]
    /\ ajsteps = [ a \in Adders |-> 0 ]
    /\ jobCount = 0
    /\ dropped = << >>
    /\ taken = 0
    /\ stoppc = "idle"
    /\ ajjob = [ a \in Adders |-> NoJob ]
    /\ wkjob = [ w \in PoolWorkers |-> NoJob ]
    /\ executed = [ j \in 1..MaxJobs |-> << >> ]
    /\ processing = 0

\* what is left alone by every step of the pool
PoolFrame ==
    UNCHANGED << envVars, metVars, clockVars, riskVars, bfVars, rlVars, saVars, audVars, ddosVars >>

\* Start (pool.go:28-33): every worker goroutine is launched and enters its loop
Start ==
    /\ \A w \in PoolWorkers : wkpc[w] = "new"
    /\ wkpc' = [ w \in PoolWorkers |-> "select" ]
    /\ UNCHANGED << jobQueue, quit, ajpc, ajsteps, jobCount, dropped, taken, stoppc,
                    ajjob, wkjob, executed, processing >>
    /\ PoolFrame

\* a receive that leaves the job in the channel
WorkerTake_Peek(w) ==
    /\ wkpc[w] = "select"
    /\ jobQueue # << >>
    /\ wkjob' = [ wkjob EXCEPT ![w] = Head(jobQueue) ]
    /\ taken' = taken + 1
    /\ wkpc' = [ wkpc EXCEPT ![w] = "job" ]
    /\ UNCHANGED << jobQueue, quit, ajpc, ajsteps, jobCount, dropped, stoppc, ajjob, executed, processing >>
    /\ PoolFrame

\* worker: case job := <-p.jobQueue (pool.go:41)
WorkerTake(w) ==
    /\ wkpc[w] = "select"
    /\ jobQueue # << >>
    /\ jobQueue' = Tail(jobQueue)
    /\ wkjob' = [ wkjob EXCEPT ![w] = Head(jobQueue) ]
    /\ taken' = taken + 1
    /\ wkpc' = [ wkpc EXCEPT ![w] = "job" ]
    /\ UNCHANGED << quit, ajpc, ajsteps, jobCount, dropped, stoppc, ajjob, executed, processing >>
    /\ PoolFrame

\* worker: job() (pool.go:43), a function that returns
WorkerJob(w) ==
    /\ wkpc[w] = "job"
    /\ wkjob[w].kind = "func"
    /\ executed' = [ executed EXCEPT ![wkjob[w].id] = Append(@, w) ]
    /\ wkjob' = [ wkjob EXCEPT ![w] = NoJob ]
    /\ wkpc' = [ wkpc EXCEPT ![w] = "select" ]
    /\ UNCHANGED << jobQueue, quit, ajpc, ajsteps, jobCount, dropped, taken, stoppc, ajjob, processing >>
    /\ PoolFrame

\* worker: job() (pool.go:43) where the job is ProcessEvents, which enters
\* its loop (config.go:329-332)
ProcessEventsEnter(w) ==
    /\ wkpc[w] = "job"
    /\ wkjob[w].kind = "ProcessEvents"
    /\ executed' = [ executed EXCEPT ![wkjob[w].id] = Append(@, w) ]
    /\ wkpc' = [ wkpc EXCEPT ![w] = "ReadMessage" ]
    /\ UNCHANGED << jobQueue, quit, ajpc, ajsteps, jobCount, dropped, taken, stoppc, ajjob,
                    wkjob, processing >>
    /\ PoolFrame

\* ProcessEvents: consumer.ReadMessage(ctx) returns an error or a message
\* (config.go:335-336)
ProcessEventsRead(w) ==
    /\ wkpc[w] = "ReadMessage"
    /\ \E err \in BOOLEAN :
         wkpc' = [ wkpc EXCEPT ![w] = IF err THEN "Sleep" ELSE "processEvent" ]
    /\ UNCHANGED << jobQueue, quit, ajpc, ajsteps, jobCount, dropped, taken, stoppc, ajjob,
                    wkjob, executed, processing >>
    /\ PoolFrame

\* ProcessEvents: time.Sleep(5 * time.Second); continue (config.go:337-342)
ProcessEventsSleep(w) ==
    /\ wkpc[w] = "Sleep"
    /\ wkpc' = [ wkpc EXCEPT ![w] = "ReadMessage" ]
    /\ UNCHANGED << jobQueue, quit, ajpc, ajsteps, jobCount, dropped, taken, stoppc, ajjob,
                    wkjob, executed, processing >>
    /\ PoolFrame

\* ProcessEvents: go s.processEvent(event), and the next round of the for
\* loop, which has no exit (config.go:344-347)
ProcessEventsSpawn(w) ==
    /\ wkpc[w] = "processEvent"
    /\ processing < MaxProcessing
    /\ processing' = processing + 1
    /\ wkpc' = [ wkpc EXCEPT ![w] = "ReadMessage" ]
    /\ UNCHANGED << jobQueue, quit, ajpc, ajsteps, jobCount, dropped, taken, stoppc, ajjob,
                    wkjob, executed >>
    /\ PoolFrame

\* a processEvent goroutine returns (config.go:350-360)
ProcessEventDone ==
    /\ processing > 0
    /\ processing' = processing - 1
    /\ UNCHANGED << jobQueue, quit, wkpc, ajpc, ajsteps, jobCount, dropped, taken, stoppc,
                    ajjob, wkjob, executed >>
    /\ PoolFrame

\* worker: case <-p.quit: return (pool.go:44-46); a receive from the closed
\* channel.  With a job queued too, select takes either case.
WorkerQuit(w) ==
    /\ wkpc[w] = "select"
    /\ quit = "closed"
    /\ wkpc' = [ wkpc EXCEPT ![w] = "stopped" ]
    /\ UNCHANGED << jobQueue, quit, ajpc, ajsteps, jobCount, dropped, taken, stoppc,
                    ajjob, wkjob, executed, processing >>
    /\ PoolFrame

\* AddJob(job) is called (pool.go:51)
AddJobBegin(a) ==
    /\ ajpc[a] = "idle"
    /\ jobCount < MaxJobs
    /\ jobCount' = jobCount + 1
    /\ \E kind \in JobKinds : ajjob' = [ ajjob EXCEPT ![a] = Job(jobCount + 1, kind) ]
    /\ ajpc' = [ ajpc EXCEPT ![a] = "select" ]
    /\ ajsteps' = [ ajsteps EXCEPT ![a] = 1 ]
    /\ UNCHANGED << jobQueue, quit, wkpc, dropped, taken, stoppc, wkjob, executed, processing >>
    /\ PoolFrame

\* a send that goes ahead although the buffer is full
AddJobSend_NoLimit(a) ==
    /\ ajpc[a] = "select"
    /\ jobQueue' = Append(jobQueue, ajjob[a])
    /\ ajpc' = [ ajpc EXCEPT ![a] = "idle" ]
    /\ ajsteps' = [ ajsteps EXCEPT ![a] = @ + 1 ]
    /\ UNCHANGED << quit, wkpc, jobCount, dropped, taken, stoppc, ajjob, wkjob, executed, processing >>
    /\ PoolFrame

\* select { case p.jobQueue <- job: }: the buffer has room (pool.go:53-54)
AddJobSend(a) ==
    /\ ajpc[a] = "select"
    /\ Len(jobQueue) < JobQueueCap
    /\ jobQueue' = Append(jobQueue, ajjob[a])
    /\ ajpc' = [ ajpc EXCEPT ![a] = "idle" ]
    /\ ajsteps' = [ ajsteps EXCEPT ![a] = @ + 1 ]
    /\ UNCHANGED << quit, wkpc, jobCount, dropped, taken, stoppc, ajjob, wkjob, executed, processing >>
    /\ PoolFrame

\* a send that waits for room in the buffer instead of taking the default case
AddJobDrop_Wait(a) ==
    /\ ajpc[a] = "select"
    /\ Len(jobQueue) >= JobQueueCap
    /\ FALSE
    /\ UNCHANGED poolVars
    /\ PoolFrame

\* select { default: }: the buffer is full, the job is dropped (pool.go:55-56)
AddJobDrop(a) ==
    /\ ajpc[a] = "select"
    /\ Len(jobQueue) >= JobQueueCap
    /\ dropped' = Append(dropped, Len(jobQueue))
    /\ ajpc' = [ ajpc EXCEPT ![a] = "idle" ]
    /\ ajsteps' = [ ajsteps EXCEPT ![a] = @ + 1 ]
    /\ UNCHANGED << jobQueue, quit, wkpc, jobCount, taken, stoppc, ajjob, wkjob, executed, processing >>
    /\ PoolFrame

\* the step of an AddJob call after its first
AddJobStep(a) == AddJobSend(a) \/ AddJobDrop(a)

\* Stop: close(p.quit) (pool.go:62)
StopClose ==
    /\ stoppc = "idle"
    /\ quit' = "closed"
    /\ stoppc' = "waiting"
    /\ UNCHANGED << jobQueue, wkpc, ajpc, ajsteps, jobCount, dropped, taken,
                    ajjob, wkjob, executed, processing >>
    /\ PoolFrame

\* Stop: p.wg.Wait() returns when every started worker has returned (pool.go:63)
StopReturn ==
    /\ stoppc = "waiting"
    /\ \A w \in PoolWorkers : wkpc[w] \in { "new", "stopped" }
    /\ stoppc' = "done"
    /\ UNCHANGED << jobQueue, quit, wkpc, ajpc, ajsteps, jobCount, dropped, taken,
                    ajjob, wkjob, executed, processing >>
    /\ PoolFrame

-----------------------------------------------------------------------------
(* main, the process (main.go:301-318) *)

\* no interrupt signal yet; part is fixed by the specification
InitMain ==
    /\ shutdown = FALSE
    /\ part = ""

\* <-quit returns: SIGINT or SIGTERM has arrived (main.go:302-305)
Shutdown ==
    /\ ~shutdown
    /\ shutdown' = TRUE
    /\ UNCHANGED << part, metVars, poolVars, clockVars, riskVars, bfVars, rlVars, saVars,
                    audVars, ddosVars >>

-----------------------------------------------------------------------------
(* SecurityMetrics, part_012:714-799 *)

\* the goroutines that call IncrementEvent
Callers == { "c1", "c2" }

\* the arguments IncrementEvent is called with: every kind it counts and
\* one it does not, blocked or not, a risk score at and above the limit
MetricKinds ==
    { "login_failure", "access_denied", "rate_limit_exceeded", "ddos_detected",
      "sql_injection_attempt", "xss_attempt", "login_success" }
MetricArgs ==
    [ eventType : MetricKinds, blocked : BOOLEAN, riskScore : { 50, 51 } ]
NoArgs == [ eventType |-> "", blocked |-> FALSE, riskScore |-> 0 ]

\* NewSecurityMetrics(), part_012:730-732: every counter is 0
NewSecurityMetrics ==
    [ TotalEvents |-> 0, BlockedRequests |-> 0, HighRiskEvents |-> 0, ActiveThreats |-> 0,
      LoginFailures |-> 0, AccessDenied |-> 0, RateLimitHits |-> 0, DDoSAttempts |-> 0,
      SQLInjectionAttempts |-> 0, XSSAttempts |-> 0 ]

\* the counter IncrementEvent's switch adds to (part_012:749-762), "" for
\* an event type without a case
KindCounter(eventType) ==
    CASE eventType = "login_failure" -> "LoginFailures"
      [] eventType = "access_denied" -> "AccessDenied"
      [] eventType = "rate_limit_exceeded" -> "RateLimitHits"
      [] eventType = "ddos_detected" -> "DDoSAttempts"
      [] eventType = "sql_injection_attempt" -> "SQLInjectionAttempts"
      [] eventType = "xss_attempt" -> "XSSAttempts"
      [] OTHER -> ""

\* the body of IncrementEvent, part_012:739-762, on the counters m
IncrementEvent(m, eventType, blocked, riskScore) ==
    LET total == [ m EXCEPT !.TotalEvents = @ + 1 ]
        blk == IF blocked THEN [ total EXCEPT !.BlockedRequests = @ + 1 ] ELSE total
        high == IF riskScore > 50 THEN [ blk EXCEPT !.HighRiskEvents = @ + 1 ] ELSE blk
    IN  IF KindCounter(eventType) = "" THEN high
        ELSE [ high EXCEPT ![KindCounter(eventType)] = @ + 1 ]

\* the value GetMetrics returns, part_012:770-781: a copy, field by field
GetMetrics(m) ==
    [ TotalEvents |-> m.TotalEvents, BlockedRequests |-> m.BlockedRequests,
      HighRiskEvents |-> m.HighRiskEvents, ActiveThreats |-> m.ActiveThreats,
      LoginFailures |-> m.LoginFailures, AccessDenied |-> m.AccessDenied,
      RateLimitHits |-> m.RateLimitHits, DDoSAttempts |-> m.DDoSAttempts,
      SQLInjectionAttempts |-> m.SQLInjectionAttempts, XSSAttempts |-> m.XSSAttempts ]

InitMetrics ==
    /\ metrics = NewSecurityMetrics
    /\ smMu = ""
    /\ smpc = [ c \in Callers |-> "idle" ]
    /\ smArgs = [ c \in Callers |-> NoArgs ]
    /\ smLocal = [ c \in Callers |-> NewSecurityMetrics ]
    /\ smHist = << >>
    /\ smLast = ""
    /\ smSnap = NewSecurityMetrics
    /\ smStarted = 0

MetricsFrame ==
    UNCHANGED << envVars, poolVars, clockVars, riskVars, bfVars, rlVars, saVars, audVars,
                 ddosVars >>

\* a goroutine calls IncrementEvent(eventType, blocked, riskScore)
IncrementCall(c) ==
    /\ smpc[c] = "idle"
    /\ smStarted < MaxIncrements
    /\ \E a \in MetricArgs : smArgs' = [ smArgs EXCEPT ![c] = a ]
    /\ smpc' = [ smpc EXCEPT ![c] = "Lock" ]
    /\ smStarted' = smStarted + 1
    /\ UNCHANGED << metrics, smMu, smLocal, smHist, smLast, smSnap >>
    /\ MetricsFrame

\* an IncrementEvent that goes on without the lock
IncrementLock_Skip(c) ==
    /\ smpc[c] = "Lock"
    /\ smpc' = [ smpc EXCEPT ![c] = "load" ]
    /\ UNCHANGED << metrics, smMu, smArgs, smLocal, smHist, smLast, smSnap, smStarted >>
    /\ MetricsFrame

\* sm.mu.Lock() (part_012:736): proceeds when nobody holds the lock
IncrementLock(c) ==
    /\ smpc[c] = "Lock"
    /\ smMu = ""
    /\ smMu' = c
    /\ smpc' = [ smpc EXCEPT ![c] = "load" ]
    /\ UNCHANGED << metrics, smArgs, smLocal, smHist, smLast, smSnap, smStarted >>
    /\ MetricsFrame

\* the reads of the counters that the ++ statements do (part_012:739-762)
IncrementLoad(c) ==
    /\ smpc[c] = "load"
    /\ smLocal' = [ smLocal EXCEPT ![c] = metrics ]
    /\ smpc' = [ smpc EXCEPT ![c] = "store" ]
    /\ UNCHANGED << metrics, smMu, smArgs, smHist, smLast, smSnap, smStarted >>
    /\ MetricsFrame

\* the writes of the ++ statements and the deferred sm.mu.Unlock()
\* (part_012:737-763)
IncrementStore(c) ==
    /\ smpc[c] = "store"
    /\ metrics' = IncrementEvent(smLocal[c], smArgs[c].eventType, smArgs[c].blocked,
                                 smArgs[c].riskScore)
    /\ smMu' = ""
    /\ smHist' = Append(smHist, smArgs[c])
    /\ smLast' = "IncrementEvent"
    /\ smpc' = [ smpc EXCEPT ![c] = "idle" ]
    /\ smArgs' = [ smArgs EXCEPT ![c] = NoArgs ]
    /\ smLocal' = [ smLocal EXCEPT ![c] = NewSecurityMetrics ]
    /\ UNCHANGED << smSnap, smStarted >>
    /\ MetricsFrame

\* GetMetrics(), part_012:766-782, under the read lock
GetMetricsCall ==
    /\ smMu = ""
    /\ smSnap' = GetMetrics(metrics)
    /\ smLast' = "GetMetrics"
    /\ UNCHANGED << metrics, smMu, smpc, smArgs, smLocal, smHist, smStarted >>
    /\ MetricsFrame

\* Reset(), part_012:785-799, under the write lock
Reset ==
    /\ smMu = ""
    /\ metrics' = [ f \in DOMAIN metrics |-> 0 ]
    /\ smHist' = << >>
    /\ smLast' = "Reset"
    /\ UNCHANGED << smMu, smpc, smArgs, smLocal, smSnap, smStarted >>
    /\ MetricsFrame

NextMetrics ==
    \/ \E c \in Callers : IncrementCall(c)
    \/ \E c \in Callers : IncrementLock(c)
    \/ \E c \in Callers : IncrementLoad(c)
    \/ \E c \in Callers : IncrementStore(c)
    \/ GetMetricsCall
    \/ Reset

-----------------------------------------------------------------------------
(* Specifications of the parts *)

vars == << now, rsEvent, rsScore, failedLogins, bfHist,
           rateLimitEvents, rlHist, userActivity, saHist, saCalls, saAlerted,
           events, lpc, lev, lsteps, wpc, wev, sink, nextSub, calls, logLevel, faulty,
           cfg, requests, hpc, hctx, ddArrivals, ddRecorded, ddAllowed, ddExceeded, ddLast,
           ddCalls, ddStats, statsPC, statsNow, writerWaiting, jobQueue, quit, wkpc, ajpc, ajsteps, jobCount, dropped,
           taken, stoppc, ajjob, wkjob, executed, processing,
           metrics, smMu, smpc, smArgs, smLocal, smHist, smLast, smSnap, smStarted,
           shutdown, part >>

\* the tracker with the default configuration and no request so far
InitDDoSIdle ==
    /\ cfg = NewDDoSProtection(DDoSConfig(0, 0, 0))
    /\ requests = << >>
    /\ hpc = [ h \in Handlers |-> "idle" ]
    /\ hctx = [ h \in Handlers |-> NoContext ]
    /\ ddArrivals = [ ip \in IPs |-> << >> ]
    /\ ddRecorded = [ ip \in IPs |-> << >> ]
    /\ ddAllowed = [ ip \in IPs |-> << >> ]
    /\ ddExceeded = [ ip \in IPs |-> FALSE ]
    /\ ddLast = NoDecision
    /\ ddCalls = 0
    /\ ddStats = NoStats
    /\ InitMutex

\* the state after construction: NewSecurityAuditor and its analyzers,
\* NewDDoSProtection with the defaults; no event is being scored
Init ==
    /\ now = 0
    /\ rsEvent = SecurityEvent("", 0, "", "", "", "10.0.0.1", 0, FALSE)
    /\ rsScore = -1
    /\ InitBF
    /\ InitRL
    /\ InitSA
    /\ InitAuditor
    /\ logLevel = "info"
    /\ faulty = {}
    /\ InitPool
    /\ InitMetrics
    /\ InitMain
    /\ InitDDoSIdle

\* calculateRiskScore applied to one event of RiskInputs
InitScore ==
    /\ now = 0
    /\ InitRisk
    /\ InitBF
    /\ InitRL
    /\ InitSA
    /\ InitAuditor
    /\ logLevel = "info"
    /\ faulty = {}
    /\ InitPool
    /\ InitMetrics
    /\ InitMain
    /\ InitDDoSIdle

NextRisk == CalculateRisk

SpecRisk == InitScore /\ [][NextRisk]_vars

NextBF == AnalyzeBF \/ TickBF

SpecBF == Init /\ [][NextBF]_vars

NextRL == AnalyzeRL \/ TickRL

SpecRL == Init /\ [][NextRL]_vars

NextSA == AnalyzeSA \/ TickSA

SpecSA == Init /\ [][NextSA]_vars

\* LogEvent callers and the background worker
NextAuditor ==
    \/ \E p \in Producers : LogEventBegin(p)
    \/ \E p \in Producers : LogEventSend(p)
    \/ \E p \in Producers : LogEventFull(p)
    \/ \E p \in Producers : LogEventDirect(p)
    \/ WorkerReceive
    \/ WorkerLog
    \/ WorkerBruteForce
    \/ WorkerSuspicious
    \/ WorkerRateLimit

\* the auditor on a logger of either level
InitLogger ==
    /\ now = 0
    /\ rsEvent = SecurityEvent("", 0, "", "", "", "10.0.0.1", 0, FALSE)
    /\ rsScore = -1
    /\ InitBF
    /\ InitRL
    /\ InitSA
    /\ InitAuditor
    /\ logLevel \in LogLevels
    /\ faulty = {}
    /\ InitPool
    /\ InitMetrics
    /\ InitMain
    /\ InitDDoSIdle

SpecAuditor == InitLogger /\ [][NextAuditor]_vars

\* the tracker built with one of DDoSConfigs
InitTracker ==
    /\ now = 0
    /\ rsEvent = SecurityEvent("", 0, "", "", "", "10.0.0.1", 0, FALSE)
    /\ rsScore = -1
    /\ InitBF
    /\ InitRL
    /\ InitSA
    /\ InitAuditor
    /\ logLevel = "info"
    /\ faulty = {}
    /\ InitPool
    /\ InitMetrics
    /\ InitMain
    /\ InitDDoS

\* requests served one after the other, the cleanup ticker and the clock
NextDDoS ==
    \/ \E h \in Handlers : ProtectBegin(h)
    \/ \E h \in Handlers : ProtectIsBlocked(h)
    \/ \E h \in Handlers : ProtectRecord(h)
    \/ \E h \in Handlers : ProtectShouldBlock(h)
    \/ \E h \in Handlers : ProtectBlockIP(h)
    \/ Cleanup
    \/ TickDD

SpecDDoS == InitTracker /\ [][NextDDoS]_vars

\* the counters and their concurrent callers
SpecMetrics == Init /\ [][NextMetrics]_vars

\* the tracker built with one of the configurations above or with one
\* whose block lasts two clock units, twice its window
InitBlock ==
    /\ now = 0
    /\ rsEvent = SecurityEvent("", 0, "", "", "", "10.0.0.1", 0, FALSE)
    /\ rsScore = -1
    /\ InitBF
    /\ InitRL
    /\ InitSA
    /\ InitAuditor
    /\ logLevel = "info"
    /\ faulty = {}
    /\ InitPool
    /\ InitMetrics
    /\ InitMain
    /\ InitProtect(DDoSConfigs \cup { DDoSConfig(1, 1, 2) })

SpecBlock == InitBlock /\ [][NextDDoS]_vars

\* two goroutines serve requests at once: the tracker of
\* TestDDoS_BlockAfterThreshold and one that admits 2 requests
InitConcurrent ==
    /\ part = "Protect"
    /\ shutdown = FALSE
    /\ now = 0
    /\ rsEvent = SecurityEvent("", 0, "", "", "", "10.0.0.1", 0, FALSE)
    /\ rsScore = -1
    /\ InitBF
    /\ InitRL
    /\ InitSA
    /\ InitAuditor
    /\ logLevel = "info"
    /\ faulty = {}
    /\ InitPool
    /\ InitMetrics
    /\ InitProtect({ DDoSConfig(1, 1, 1), DDoSConfig(2, 2, 1) })

SpecConcurrent == InitConcurrent /\ [][NextDDoS]_vars

\* the ticker keeps firing (for range ticker.C, ddos.go:163)
SpecDDoSFair == SpecDDoS /\ WF_vars(Cleanup)

\* a step of the auditor's background worker
WorkerStep ==
    WorkerReceive \/ WorkerLog \/ WorkerBruteForce \/ WorkerSuspicious \/ WorkerRateLimit

\* the process with its two background goroutines, the auditor's worker and
\* the tracker's cleanup, each followed in behaviours of its own, and the
\* interrupt signal
InitShutdown ==
    /\ now = 0
    /\ rsEvent = SecurityEvent("", 0, "", "", "", "10.0.0.1", 0, FALSE)
    /\ rsScore = -1
    /\ InitBF
    /\ InitRL
    /\ InitSA
    /\ InitAuditor
    /\ logLevel = "info"
    /\ faulty = {}
    /\ InitPool
    /\ InitMetrics
    /\ shutdown = FALSE
    /\ \/ part = "SecurityAuditor" /\ InitDDoSIdle
       \/ part = "DDoSProtection" /\ InitDDoS

NextShutdown ==
    \/ Shutdown
    \/ part = "SecurityAuditor" /\ NextAuditor
    \/ part = "DDoSProtection" /\ NextDDoS

SpecShutdown == InitShutdown /\ [][NextShutdown]_vars

\* the auditor fed one event again and again, by two callers
InitOrdering ==
    /\ now = 0
    /\ rsEvent = SecurityEvent("", 0, "", "", "", "10.0.0.1", 0, FALSE)
    /\ rsScore = -1
    /\ InitBF
    /\ InitRL
    /\ InitSA
    /\ InitAuditor
    /\ logLevel \in LogLevels
    /\ faulty = {}
    /\ InitPool
    /\ InitMetrics
    /\ shutdown = FALSE
    /\ part = "processEvents"
    /\ InitDDoSIdle

\* one caller, LogDDoSDetected once per blocked request, and the worker
NextOrdering ==
    \/ LogEventBegin("p1")
    \/ LogEventSend("p1")
    \/ LogEventFull("p1")
    \/ LogEventDirect("p1")
    \/ WorkerReceive
    \/ WorkerLog
    \/ WorkerBruteForce
    \/ WorkerSuspicious
    \/ WorkerRateLimit

SpecOrdering == InitOrdering /\ [][NextOrdering]_vars

\* the pool: callers of AddJob, the workers, Start and Stop
NextPool ==
    \/ Start
    \/ \E w \in PoolWorkers : WorkerTake(w)
    \/ \E w \in PoolWorkers : WorkerJob(w)
    \/ \E w \in PoolWorkers : WorkerQuit(w)
    \/ \E a \in Adders : AddJobBegin(a)
    \/ \E a \in Adders : AddJobSend(a)
    \/ \E a \in Adders : AddJobDrop(a)
    \/ StopClose
    \/ StopReturn

SpecPool == Init /\ [][NextPool]_vars

\* the worker goroutines are scheduled, and a job that was called returns
SpecPoolFair ==
    SpecPool /\ \A w \in PoolWorkers : WF_vars(WorkerTake(w)) /\ WF_vars(WorkerJob(w))

\* where main is (main.go:101-311): it starts the pool, adds its one job,
\* waits for the signal, stops the pool and goes on to server.Shutdown
MainPC ==
    IF \A w \in PoolWorkers : wkpc[w] = "new" THEN "Start"
    ELSE IF jobCount = 0 \/ ajpc["a1"] = "select" THEN "AddJob"
    ELSE IF ~shutdown THEN "signal"
    ELSE IF stoppc # "done" THEN "Stop"
    ELSE "server.Shutdown"

\* the pool as main wires it
InitWiring ==
    /\ now = 0
    /\ rsEvent = SecurityEvent("", 0, "", "", "", "10.0.0.1", 0, FALSE)
    /\ rsScore = -1
    /\ InitBF
    /\ InitRL
    /\ InitSA
    /\ InitAuditor
    /\ logLevel = "info"
    /\ faulty = {}
    /\ InitPool
    /\ InitMetrics
    /\ shutdown = FALSE
    /\ part = "main"
    /\ InitDDoSIdle

\* main's statements in their order, and the workers.  The one AddJob call
\* finds the queue empty, so its select sends.
MainStart == MainPC = "Start" /\ Start
MainAddJob == MainPC = "AddJob" /\ jobCount = 0 /\ AddJobBegin("a1")
MainAddJobSend == MainPC = "AddJob" /\ AddJobSend("a1")
MainSignal == MainPC = "signal" /\ Shutdown
MainStopClose == MainPC = "Stop" /\ StopClose
MainStopReturn == MainPC = "Stop" /\ StopReturn

NextWiring ==
    \/ MainStart
    \/ MainAddJob
    \/ MainAddJobSend
    \/ MainSignal
    \/ MainStopClose
    \/ MainStopReturn
    \/ \E w \in PoolWorkers : WorkerTake(w)
    \/ \E w \in PoolWorkers : ProcessEventsEnter(w)
    \/ \E w \in PoolWorkers : ProcessEventsRead(w)
    \/ \E w \in PoolWorkers : ProcessEventsSleep(w)
    \/ \E w \in PoolWorkers : ProcessEventsSpawn(w)
    \/ ProcessEventDone
    \/ \E w \in PoolWorkers : WorkerQuit(w)

SpecWiring == InitWiring /\ [][NextWiring]_vars

\* main and the worker goroutines are scheduled
SpecWiringFair ==
    /\ SpecWiring
    /\ WF_vars(MainStopClose) /\ WF_vars(MainStopReturn)
    /\ \A w \in PoolWorkers :
           /\ WF_vars(WorkerTake(w)) /\ WF_vars(WorkerQuit(w))
           /\ WF_vars(ProcessEventsEnter(w))
           /\ WF_vars(ProcessEventsRead(w))
           /\ WF_vars(ProcessEventsSleep(w)) /\ WF_vars(ProcessEventsSpawn(w))
    /\ WF_vars(ProcessEventDone)

\* the tracker with requests, the cleanup ticker and callers of GetStats
NextStats ==
    \/ NextDDoS
    \/ GetStatsBegin
    \/ LockWait
    \/ GetStatsReturn

SpecStats == InitTracker /\ [][NextStats]_vars

\* the worker and the ticker are scheduled
SpecShutdownFair == SpecShutdown /\ WF_vars(WorkerStep) /\ WF_vars(Cleanup)

\* the auditor with analyzers that fail: one of them, or all three
InitIsolation ==
    /\ now = 0
    /\ rsEvent = SecurityEvent("", 0, "", "", "", "10.0.0.1", 0, FALSE)
    /\ rsScore = -1
    /\ InitBF
    /\ InitRL
    /\ InitSA
    /\ InitAuditor
    /\ logLevel = "info"
    /\ faulty \in { {"BruteForce"}, {"SuspiciousActivity"}, {"RateLimit"},
                    {"BruteForce", "SuspiciousActivity", "RateLimit"} }
    /\ InitPool
    /\ InitMetrics
    /\ InitMain
    /\ InitDDoSIdle

SpecIsolation == InitIsolation /\ [][NextAuditor]_vars

\* the three analyzers, each followed in behaviours of its own
InitAnalyzers ==
    /\ now = 0
    /\ rsEvent = SecurityEvent("", 0, "", "", "", "10.0.0.1", 0, FALSE)
    /\ rsScore = -1
    /\ InitBF
    /\ InitRL
    /\ InitSA
    /\ InitAuditor
    /\ logLevel = "info"
    /\ faulty = {}
    /\ InitPool
    /\ InitMetrics
    /\ shutdown = FALSE
    /\ part \in { "BruteForce", "RateLimit", "SuspiciousActivity" }
    /\ InitDDoSIdle

NextAnalyzers ==
    \/ part = "BruteForce" /\ NextBF
    \/ part = "RateLimit" /\ NextRL
    \/ part = "SuspiciousActivity" /\ NextSA

SpecAnalyzers == InitAnalyzers /\ [][NextAnalyzers]_vars

\* events keep arriving and time passes
SpecAnalyzersFair ==
    SpecAnalyzers /\ WF_vars(NextAnalyzers)

-----------------------------------------------------------------------------
(* Properties *)

\* the event entries in the sink that came from LogEvent call n
C1_Entries(n) ==
    Cardinality({ i \in 1..Len(sink) :
                    sink[i].kind = "security_event" /\ sink[i].sub = n })

\* the event of LogEvent call n is still on its way: held by its caller,
\* in the channel, or received by the worker and not yet logged
C1_OnItsWay(n) ==
    \/ \E p \in Producers : lpc[p] # "idle" /\ lev[p].sub = n
    \/ \E i \in 1..Len(events) : events[i].sub = n
    \/ wpc = "log" /\ wev.sub = n

\* C1: every event passed to LogEvent gets exactly one event entry in the
\* sink: never two, and one as soon as the event is no longer on its way
\* (its caller logged it directly, or the worker received and logged it).
C1_ExactlyOneEntry ==
    \A n \in 1..nextSub :
        /\ C1_Entries(n) <= 1
        /\ ~C1_OnItsWay(n) => C1_Entries(n) = 1

\* C2: a LogEvent call never waits: whatever the channel and the worker are
\* doing, the caller's next step is enabled, and a call is over after at
\* most 3 steps of its own.
C2_NeverBlocks ==
    \A p \in Producers :
        /\ lpc[p] # "idle" => ENABLED LogEventStep(p)
        /\ lsteps[p] <= 3

\* a call has returned through the direct-logging path while the channel is
\* full and the worker is inside an analyzer
C2_Witness ==
    \E p \in Producers :
        /\ lpc[p] = "idle"
        /\ lsteps[p] = 3
        /\ Len(events) = EventQueueCap
        /\ wpc \in { "BruteForce", "SuspiciousActivity", "RateLimit" }

\* C3: the risk score of every logged event, and of every event handed to
\* the analyzers, lies in [0,100], whatever RiskScore the caller supplied.
C3_RiskInRange ==
    /\ \A i \in 1..Len(sink) :
           sink[i].kind = "security_event" =>
               sink[i].risk_score >= 0 /\ sink[i].risk_score <= 100
    /\ wpc \in { "BruteForce", "SuspiciousActivity", "RateLimit" } =>
           wev.event.RiskScore >= 0 /\ wev.event.RiskScore <= 100

\* the base amounts and severity bonuses of the risk score, as tables
C4_Base ==
    ( "login_failure" :> 20 @@ "access_denied" :> 15 @@ "rate_limit_exceeded" :> 25
      @@ "ddos_detected" :> 50 @@ "sql_injection_attempt" :> 40 @@ "xss_attempt" :> 35
      @@ "suspicious_input" :> 30 @@ "suspicious_user_agent" :> 20
      @@ "multiple_failures" :> 35 @@ "unusual_activity" :> 25 )

C4_Bonus == ( "critical" :> 30 @@ "high" :> 20 @@ "medium" :> 10 @@ "low" :> 5 )

C4_Lookup(table, k) == IF k \in DOMAIN table THEN table[k] ELSE 0

\* C4: calculateRiskScore(event) is min(100, base(kind) + bonus(severity) +
\* (15 if blocked)): it depends on the event's kind, severity and blocked
\* flag only, whatever its other fields.
C4_RiskScoreFormula ==
    rsScore # -1 =>
        rsScore = Min(100, C4_Lookup(C4_Base, rsEvent.EventType)
                           + C4_Lookup(C4_Bonus, rsEvent.Severity)
                           + (IF rsEvent.Blocked THEN 15 ELSE 0))

\* a blocked critical DDoS event has been scored 95
C4_Witness ==
    /\ rsScore = 95
    /\ rsEvent.EventType = "ddos_detected"
    /\ rsEvent.Severity = "critical"
    /\ rsEvent.Blocked
    /\ rsEvent.RiskScore = 70

\* C5: in every reachable state, for a login failure from an address whose
\* current series (the failures since the address's state was last empty or
\* cleared, this one included) lies within 15 minutes, Analyze returns an
\* alert exactly when the failure is the 5th of the series; the alert is of
\* high severity and removes the address's state; the failure that follows
\* an alert returns none and leaves a state of that one failure.
C5_BruteForceFifth ==
    \A event \in BFInputs :
        event.EventType = "login_failure" =>
            LET ip == event.IPAddress
                res == BruteForceAnalyze(failedLogins, event, now)
                fresh == MapGet(failedLogins, ip) = << >>
                h == SeriesStep(bfHist[ip], fresh, event, FALSE, BruteForceThreshold + 1)
            IN  now - h.first < 15 =>
                    /\ res.alerts # << >> <=> h.n = 5
                    /\ res.alerts # << >> =>
                           /\ res.alerts[1].Severity = "high"
                           /\ ip \notin DOMAIN res.state
                    /\ bfHist[ip].alerted =>
                           /\ res.alerts = << >>
                           /\ res.state[ip] = << event.Timestamp >>

\* a 5th failure within 15 minutes has returned an alert and cleared the state
C5_Witness ==
    \E ip \in IPs :
        /\ bfHist[ip].alerted
        /\ bfHist[ip].n = 5
        /\ now - bfHist[ip].first < 15
        /\ ip \notin DOMAIN failedLogins

\* C6: in every reachable state, for a rate-limit-exceeded or DDoS-detected
\* event from an address whose current series (both kinds counted together)
\* lies within 1 hour, Analyze returns an alert exactly when the event is the
\* 10th of the series; the alert is of high severity and removes the
\* address's state; the event that follows an alert returns none and starts
\* a count of 1.
C6_RateLimitTenth ==
    \A event \in RLInputs :
        event.EventType \in { "rate_limit_exceeded", "ddos_detected" } =>
            LET ip == event.IPAddress
                res == RateLimitAnalyze(rateLimitEvents, event, now)
                fresh == MapGet(rateLimitEvents, ip) = << >>
                h == SeriesStep(rlHist[ip], fresh, event, FALSE, RateLimitThreshold + 1)
            IN  now - h.first < 60 =>
                    /\ res.alerts # << >> <=> h.n = 10
                    /\ res.alerts # << >> =>
                           /\ res.alerts[1].Severity = "high"
                           /\ ip \notin DOMAIN res.state
                    /\ rlHist[ip].alerted =>
                           /\ res.alerts = << >>
                           /\ Len(res.state[ip]) = 1

\* a 10th event within the hour has returned an alert and cleared the state
C6_Witness ==
    \E ip \in IPs :
        /\ rlHist[ip].alerted
        /\ rlHist[ip].n = 10
        /\ now - rlHist[ip].first < 60
        /\ ip \notin DOMAIN rateLimitEvents

\* the events of the sequence s that are blocked / of risk score above 50
C7_Blocked(s) == Cardinality({ i \in 1..Len(s) : s[i].Blocked })
C7_HighRisk(s) == Cardinality({ i \in 1..Len(s) : s[i].RiskScore > 50 })

\* C7: in every reachable state, Analyze(e) files e under its user id when it
\* has one and under its source address otherwise, and returns an alert, of
\* medium severity, if and only if that actor's events of the last hour, e
\* included, number at least 10 and more than 3 of them are blocked or more
\* than 5 of them have a risk score above 50.
C7_SuspiciousIff ==
    \A event \in SAInputs :
        LET actor == ActorOf(event)
            res == SuspiciousAnalyze(userActivity, event, now)
            inWindow == SelectSeq(Append(saHist[actor], event),
                                  LAMBDA e : InLastHour(e.Timestamp, now))
        IN  /\ res.alerts # << >> <=>
                   /\ Len(inWindow) >= 10
                   /\ C7_Blocked(inWindow) > 3 \/ C7_HighRisk(inWindow) > 5
            /\ res.alerts # << >> => res.alerts[1].Severity = "medium"
            /\ actor \in DOMAIN res.state /\ res.state[actor] = inWindow

\* 10 events of one user within the hour, 4 of them blocked and none
\* high-risk, have returned an alert
C7_Witness ==
    /\ saAlerted["u1"]
    /\ Len(saHist["u1"]) = 10
    /\ C7_Blocked(saHist["u1"]) = 4
    /\ C7_HighRisk(saHist["u1"]) = 0
    /\ now = 60

\* C8: a request that arrives less than blockDuration after the address's
\* most recent recorded timestamp is denied; one that arrives at least
\* blockDuration after it is allowed, provided the recorded timestamps inside
\* the window, itself included, do not exceed maxRequests; and with
\* maxRequests = 1 the address's 2nd request is denied when the 1st lies
\* inside the window.  Stated of the calls that are answered within the
\* instant in which they arrive.
C8_BlockAndRelease ==
    ddLast.done /\ ddLast.served = ddLast.t =>
        /\ ddLast.prev >= 0 /\ ddLast.t - ddLast.prev < cfg.blockDuration =>
               ddLast.decision = "deny"
        /\ /\ ddLast.prev >= 0
           /\ ddLast.t - ddLast.prev >= cfg.blockDuration
           /\ ddLast.count <= cfg.maxRequests
           => ddLast.decision = "allow"
        /\ cfg.maxRequests = 1 /\ ddLast.nth = 2 /\ ddLast.before = 1 =>
               ddLast.decision = "deny"

\* C9: a request is denied only to an address that has exceeded maxRequests
\* requests within some window, the current request included.
C9_DeniedOnlyOverLimit ==
    ddLast.done /\ ddLast.decision = "deny" => ddExceeded[ddLast.ip]

\* the address has been without a Protect call for 2 x blockDuration
C10_Idle(ip) ==
    /\ \A h \in Handlers : hpc[h] = "idle" \/ hctx[h].ip # ip
    /\ \A i \in 1..Len(ddArrivals[ip]) : now - ddArrivals[ip][i] >= 2 * cfg.blockDuration

\* the map holds no empty list and no timestamp of age 2 x blockDuration or more
C10_Swept(m) ==
    \A ip \in DOMAIN m :
        /\ m[ip] # << >>
        /\ \A i \in 1..Len(m[ip]) : now - m[ip][i] < 2 * cfg.blockDuration

\* C10: a cleanup sweep leaves no address with an empty list or with a
\* timestamp older than 2 x blockDuration; and, with the ticker firing, an
\* address idle for 2 x blockDuration is eventually removed from the map
\* unless a new request of it arrives, and total_ips eventually is 0 once
\* all addresses are idle that long.
C10_CleanupEvicts ==
    /\ [] C10_Swept(CleanupSweep(requests, now))
    /\ \A ip \in IPs :
           (ip \in DOMAIN requests /\ C10_Idle(ip))
               ~> (ip \notin DOMAIN requests \/ ~C10_Idle(ip))
    /\ (\A ip \in IPs : C10_Idle(ip))
           ~> (GetStats(now).total_ips = 0 \/ \E ip \in IPs : ~C10_Idle(ip))

\* an address that had a recorded request is gone from the map and
\* total_ips is 0
C10_Witness ==
    /\ \E ip \in IPs : ddRecorded[ip] # << >> /\ C10_Idle(ip) /\ ip \notin DOMAIN requests
    /\ GetStats(now).total_ips = 0

\* the ID the event of LogEvent call n carries after LogEvent's defaults
C11_IDOf(n) == IF calls[n].event.ID = "" THEN GenIDs[n] ELSE calls[n].event.ID

\* the entries of userActivity that came from the calls n and m
C11_InActivity(n, m) ==
    LET key == ActorOf(calls[n].event)
    IN  Len(SelectSeq(MapGet(userActivity, key),
                      LAMBDA e : e.ID \in { C11_IDOf(n), C11_IDOf(m) }))

\* C11: no deduplication.  Two LogEvent calls with the same event (same ID
\* and fields) yield two event entries, one each, with equal risk scores,
\* and once the worker has analyzed both, both are in the analyzers'
\* windows.
C11_NoDedup ==
    \A n \in 1..Len(calls) : \A m \in 1..Len(calls) :
        n < m /\ calls[n].event = calls[m].event
              /\ ~C1_OnItsWay(n) /\ ~C1_OnItsWay(m) =>
            /\ C1_Entries(n) = 1 /\ C1_Entries(m) = 1
            /\ \A i \in 1..Len(sink) : \A j \in 1..Len(sink) :
                   /\ sink[i].kind = "security_event" /\ sink[i].sub = n
                   /\ sink[j].kind = "security_event" /\ sink[j].sub = m
                   => sink[i].risk_score = sink[j].risk_score
            /\ calls[n].analyzed /\ calls[m].analyzed =>
                   /\ C11_InActivity(n, m) >= 2
                   /\ calls[n].event.EventType = "login_failure" =>
                          Len(MapGet(failedLogins, calls[n].event.IPAddress)) >= 2
                   /\ calls[n].event.EventType = "ddos_detected" =>
                          Len(MapGet(rateLimitEvents, calls[n].event.IPAddress)) >= 2

\* the LogEvent calls whose event the worker has processed
C12_Processed == { n \in 1..Len(calls) : calls[n].analyzed }

\* C12: the statistics read through GetSecurityStats count the events the
\* worker has processed: total_events is their number, blocked_requests the
\* number of blocked ones, high_risk_events the number with a risk score
\* above 50.
C12_StatsCountProcessed ==
    /\ GetSecurityStats.total_events = Cardinality(C12_Processed)
    /\ GetSecurityStats.blocked_requests =
           Cardinality({ n \in C12_Processed : calls[n].event.Blocked })
    /\ GetSecurityStats.high_risk_events =
           Cardinality({ n \in C12_Processed :
                           Normalize(calls[n].event, n, now).RiskScore > HighRiskScore })

\* C13: after the interrupt signal both background loops end: the worker
\* leaves its loop over sa.events, and the cleanup loop takes no further
\* tick.
C13_LoopsStop ==
    shutdown ~> (wpc = "stopped" /\ ~ENABLED Cleanup)

\* the worker is through with the event of call n, which went to it
\* through the channel
C14_Through(n) ==
    /\ calls[n].path = "channel"
    /\ \A i \in 1..Len(events) : events[i].sub # n
    /\ wev.sub = n => wpc = "receive"

\* C14: an analyzer that returns an error stops nothing else.  Every
\* analyzer is called with every event the worker takes, also those
\* registered after one that failed; no alert of a failing analyzer is
\* logged; and the worker is back at its receive, able to take the next
\* queued event.
C14_ErrorIsolation ==
    /\ \A n \in 1..Len(calls) :
           /\ C14_Through(n) =>
                  calls[n].by = { Analyzers[i] : i \in 1..Len(Analyzers) }
           /\ wev.sub = n /\ wpc \in { Analyzers[i] : i \in 2..Len(Analyzers) } =>
                  \E i \in 2..Len(Analyzers) :
                      wpc = Analyzers[i] /\ calls[n].by = { Analyzers[j] : j \in 1..(i-1) }
    /\ \A i \in 1..Len(sink) :
           sink[i].kind = "security_alert" =>
               \A name \in faulty : sink[i].id # "Failed " \o name
    /\ wpc # "receive" => ENABLED WorkerStep
    /\ wpc = "receive" /\ events # << >> => ENABLED WorkerReceive

\* the first analyzer failed on an event, the later ones were called with
\* it, and the worker has taken the next event
C14_Witness ==
    /\ "BruteForce" \in faulty
    /\ \E n \in 1..Len(calls) : C14_Through(n) /\ calls[n].analyzed
    /\ wpc = "SuspiciousActivity"

\* C15: no alert storms.  For every analyzer and every key, after an alert
\* for the key the next event of the key returns no alert unless the key's
\* state was cleared in between: with the brute-force and the rate-limit
\* analyzer the alert itself removed the key, with the suspicious-activity
\* analyzer a key that alerted and still has its list does not alert again.
C15_NoAlertStorms ==
    /\ \A ip \in IPs : bfHist[ip].alerted =>
           /\ ip \notin DOMAIN failedLogins
           /\ \A event \in BFInputs : event.IPAddress = ip =>
                  BruteForceAnalyze(failedLogins, event, now).alerts = << >>
    /\ \A ip \in IPs : rlHist[ip].alerted =>
           /\ ip \notin DOMAIN rateLimitEvents
           /\ \A event \in RLInputs : event.IPAddress = ip =>
                  RateLimitAnalyze(rateLimitEvents, event, now).alerts = << >>
    /\ \A key \in Keys : saAlerted[key] /\ MapGet(userActivity, key) # << >> =>
           \A event \in SAInputs : ActorOf(event) = key =>
               SuspiciousAnalyze(userActivity, event, now).alerts = << >>

\* C16: after any Analyze call no analyzer's map holds a key with an empty
\* list.
C16_NoEmptyList ==
    /\ \A ip \in DOMAIN failedLogins : failedLogins[ip] # << >>
    /\ \A ip \in DOMAIN rateLimitEvents : rateLimitEvents[ip] # << >>
    /\ \A key \in DOMAIN userActivity : userActivity[key] # << >>

\* every timestamp of the list is outside the window that ends at t
C17_AgedOut(stamps, t, window) ==
    \A i \in 1..Len(stamps) : ~After(stamps[i], t - window)

C17_StaleBF(ip) ==
    ip \in DOMAIN failedLogins
        /\ C17_AgedOut(MapGet(failedLogins, ip), now, BruteForceWindow)

C17_StaleRL(ip) ==
    ip \in DOMAIN rateLimitEvents
        /\ C17_AgedOut(MapGet(rateLimitEvents, ip), now, RateLimitWindow)

C17_StaleSA(key) ==
    key \in DOMAIN userActivity
        /\ C17_AgedOut([ i \in 1..Len(MapGet(userActivity, key)) |->
                           MapGet(userActivity, key)[i].Timestamp ],
                       now, SuspiciousWindow)

\* C17: analyzer state is bounded.  A key whose entries have all aged past
\* the analyzer's horizon is eventually deleted from the analyzer's map
\* (unless the key is seen again first and has an entry within the horizon).
C17_StaleKeysDeleted ==
    /\ \A ip \in IPs :
           C17_StaleBF(ip) ~> (ip \notin DOMAIN failedLogins \/ ~C17_StaleBF(ip))
    /\ \A ip \in IPs :
           C17_StaleRL(ip) ~> (ip \notin DOMAIN rateLimitEvents \/ ~C17_StaleRL(ip))
    /\ \A key \in Keys :
           C17_StaleSA(key) ~> (key \notin DOMAIN userActivity \/ ~C17_StaleSA(key))

\* the positions of the list whose timestamp lies within the window that
\* ends at t
C18_InWindow(stamps, t, window) == { i \in 1..Len(stamps) : t - stamps[i] < window }

C18_Stamps(evs) == [ i \in 1..Len(evs) |-> evs[i].Timestamp ]

\* C18: prune before count.  In every reachable state and for every event,
\* an analyzer returns an alert only when the entries of the key (the new
\* one included) whose timestamps lie within the window ending now reach
\* the threshold by themselves, and the alert counts exactly these; in
\* particular a brute-force alert has 5 failures less than 15 minutes apart
\* from each other.
C18_PruneBeforeCount ==
    /\ \A event \in BFInputs :
           LET res == BruteForceAnalyze(failedLogins, event, now)
               all == Append(MapGet(failedLogins, event.IPAddress), event.Timestamp)
               in == C18_InWindow(all, now, BruteForceWindow)
           IN  res.alerts # << >> =>
                   /\ Cardinality(in) >= BruteForceThreshold
                   /\ res.alerts[1].Count = Cardinality(in)
                   /\ \A i \in in : \A j \in in :
                          all[i] - all[j] < BruteForceWindow
    /\ \A event \in RLInputs :
           LET res == RateLimitAnalyze(rateLimitEvents, event, now)
               all == Append(MapGet(rateLimitEvents, event.IPAddress), event.Timestamp)
               in == C18_InWindow(all, now, RateLimitWindow)
           IN  res.alerts # << >> =>
                   /\ Cardinality(in) >= RateLimitThreshold
                   /\ res.alerts[1].Count = Cardinality(in)
    /\ \A event \in SAInputs :
           LET res == SuspiciousAnalyze(userActivity, event, now)
               all == Append(MapGet(userActivity, ActorOf(event)), event)
               in == C18_InWindow(C18_Stamps(all), now, SuspiciousWindow)
           IN  res.alerts # << >> =>
                   /\ Cardinality(in) >= SuspiciousMinEvents
                   /\ res.alerts[1].Count = Cardinality(in)
                   /\ \/ Cardinality({ i \in in : all[i].Blocked }) > SuspiciousBlockedLimit
                      \/ Cardinality({ i \in in : all[i].RiskScore > HighRiskScore })
                             > SuspiciousHighRiskLimit

\* an address has sent a 5th failure since its state was last empty, the
\* earlier ones were older than the window, and no alert was returned
C18_Witness ==
    \E ip \in IPs :
        /\ part = "BruteForce"
        /\ bfHist[ip].n >= BruteForceThreshold
        /\ ~bfHist[ip].alerted
        /\ now - bfHist[ip].first >= BruteForceWindow
        /\ ip \in DOMAIN failedLogins
        /\ Len(failedLogins[ip]) < BruteForceThreshold

\* the stored timestamps, as pairs of an address and a position in its list
C19_Stored ==
    UNION { { << ip, i >> : i \in 1..Len(requests[ip]) } : ip \in DOMAIN requests }

\* the counters of the tracker state at time t
C19_Snapshot(t) ==
    [ total_ips |-> Cardinality(DOMAIN requests),
      active_requests |->
          Cardinality({ p \in C19_Stored : t - requests[p[1]][p[2]] < cfg.windowDuration }),
      blocked_ips |-> Cardinality({ ip \in DOMAIN requests : isBlocked(ip, t) }) ]

\* C19: GetStats is a read-only snapshot.  What a GetStats call returns is
\* the number of tracked addresses, the number of stored timestamps inside
\* the window ending at the call's now, and the number of tracked addresses
\* isBlocked denies at that instant, which is at most the number of tracked
\* addresses; from the moment the call holds the read lock to its return
\* the tracker's map and configuration do not change.
C19_ReadOnlySnapshot ==
    [][ /\ GetStatsBegin => requests' = requests /\ cfg' = cfg
        /\ statsPC = "reading" => requests' = requests /\ cfg' = cfg
        /\ GetStatsReturn =>
               /\ ddStats' = C19_Snapshot(statsNow)
               /\ ddStats'.blocked_ips <= ddStats'.total_ips ]_vars

\* a GetStats call has returned with two tracked addresses, one of them
\* blocked, and some stored timestamp outside the window
C19_Witness ==
    /\ statsPC = "idle"
    /\ ddStats.total_ips = 2
    /\ ddStats.blocked_ips = 1
    /\ ddStats.active_requests >= 1
    /\ ddStats.active_requests < Cardinality(C19_Stored)

\* C20: AddJob never waits: whatever the queue, the workers and Stop are
\* doing, the caller's select is enabled and the call is over after 2 steps
\* of its own; with the queue at its capacity the select drops the job,
\* otherwise it queues it; the queue never holds more than its capacity;
\* and every job is queued, received by a worker, dropped or still with
\* its caller.
C20_AddJobNeverBlocks ==
    /\ Len(jobQueue) <= JobQueueCap
    /\ \A a \in Adders :
           /\ ajpc[a] = "select" => ENABLED AddJobStep(a)
           /\ ajpc[a] = "select" /\ Len(jobQueue) = JobQueueCap =>
                  ENABLED AddJobDrop(a) /\ ~ENABLED AddJobSend(a)
           /\ ajpc[a] = "select" /\ Len(jobQueue) < JobQueueCap =>
                  ENABLED AddJobSend(a) /\ ~ENABLED AddJobDrop(a)
           /\ ajsteps[a] <= 2
    /\ \A i \in 1..Len(dropped) : dropped[i] = JobQueueCap
    /\ jobCount = Len(jobQueue) + taken + Len(dropped)
                     + Cardinality({ a \in Adders : ajpc[a] = "select" })

\* a job has been dropped and its call is over while the queue is full and
\* the worker is inside a job; another caller is in its select
C20_Witness ==
    /\ Len(dropped) >= 1
    /\ Len(jobQueue) = JobQueueCap
    /\ \E w \in PoolWorkers : wkpc[w] = "job"
    /\ \E a \in Adders : ajpc[a] = "idle" /\ ajsteps[a] = 2
    /\ \E a \in Adders : ajpc[a] = "select"

\* job j is in the queue
C21_Queued(j) == \E i \in 1..Len(jobQueue) : jobQueue[i].id = j

\* C21: no job is called twice (by one worker or by two), and a job that is
\* in the queue while the workers are started and Stop has not been called
\* is eventually called, unless Stop is called first.
C21_ExecutedOnce ==
    /\ [](\A j \in 1..MaxJobs : Len(executed[j]) <= 1)
    /\ \A j \in 1..MaxJobs :
           (C21_Queued(j) /\ quit = "open" /\ \A w \in PoolWorkers : wkpc[w] # "new")
           ~> (Len(executed[j]) = 1 \/ quit = "closed")

\* both workers have called jobs, each job once, and Stop has not been called
C21_Witness ==
    /\ quit = "open"
    /\ \E j \in 1..MaxJobs : executed[j] = << "w1" >>
    /\ \E j \in 1..MaxJobs : executed[j] = << "w2" >>
    /\ \E w \in PoolWorkers : wkpc[w] = "job"

\* C22: graceful shutdown.  After the signal, workerPool.Stop() returns and
\* main reaches server.Shutdown.
C22_StopReturns ==
    shutdown ~> (MainPC = "server.Shutdown")


\* the place of a log entry within the work on one event: the event entry,
\* then the alert of analyzers[1], analyzers[2], analyzers[3]
C23_Rank(e) ==
    IF e.kind = "security_event" THEN 0
    ELSE IF e.id = "Brute Force Attack Detected" THEN 1
    ELSE IF e.id = "Suspicious Activity Detected" THEN 2
    ELSE 3

\* the entries the worker wrote: those of events that went through the channel
C23_WorkerEntries == SelectSeq(sink, LAMBDA e : calls[e.sub].path = "channel")

\* the analyzers before analyzers[i]
C23_Before(i) == { Analyzers[k] : k \in 1..(i - 1) }

\* C23: events leave the channel in the order they entered it; the worker's
\* entries are grouped by event in that order, and within one event the
\* event entry comes first and the alerts follow in the order BruteForce,
\* SuspiciousActivity, RateLimit; while the worker is about to call
\* analyzers[i] it has called exactly the analyzers before it for this
\* event and no alert of analyzers[i] or a later one is written yet.
C23_WorkerOrdering ==
    /\ \A n \in 1..Len(calls) : calls[n].deq # 0 => calls[n].deq = calls[n].enq
    /\ \A i, j \in 1..Len(C23_WorkerEntries) :
          i < j =>
            LET a == C23_WorkerEntries[i]
                b == C23_WorkerEntries[j]
            IN  \/ calls[a.sub].deq < calls[b.sub].deq
                \/ a.sub = b.sub /\ C23_Rank(a) < C23_Rank(b)
    /\ \A e \in { sink[k] : k \in 1..Len(sink) } :
          (calls[e.sub].path = "channel" /\ C23_Rank(e) > 0) =>
              Analyzers[C23_Rank(e)] \in calls[e.sub].by
    /\ wpc = "log" =>
          /\ calls[wev.sub].by = {}
          /\ \A k \in 1..Len(sink) : sink[k].sub # wev.sub
    /\ \A i \in 1..Len(Analyzers) :
          wpc = Analyzers[i] =>
            /\ calls[wev.sub].by = C23_Before(i)
            /\ \E k \in 1..Len(sink) : sink[k].sub = wev.sub /\ C23_Rank(sink[k]) = 0
            /\ \A k \in 1..Len(sink) : sink[k].sub = wev.sub => C23_Rank(sink[k]) < i
    /\ \A n \in 1..Len(calls) :
          (calls[n].deq # 0 /\ (wpc = "receive" \/ wev.sub # n)) => calls[n].analyzed

\* C23 happens: after a full channel, an event whose entry is followed by
\* the alerts of SuspiciousActivity and RateLimit has been worked off
C23_Witness ==
    /\ \E m \in 1..Len(calls) : calls[m].path = "direct"
    /\ Len(sink) >= 3
    /\ LET e == sink[Len(sink) - 2]
           a == sink[Len(sink) - 1]
           b == sink[Len(sink)]
       IN  /\ calls[e.sub].analyzed
           /\ calls[e.sub].enq > 2
           /\ a.sub = e.sub /\ b.sub = e.sub
           /\ C23_Rank(e) = 0 /\ C23_Rank(a) = 2 /\ C23_Rank(b) = 3


\* the most recent timestamp recorded for ip
C24_LastRecorded(ip) == ddRecorded[ip][Len(ddRecorded[ip])]

\* C24: a Protect call that the block check denies leaves the map as it
\* was, and so, for an address the map holds, the block check at any time t
\* denies exactly when t is less than blockDuration after the address's
\* most recent recorded timestamp, whatever requests were denied since.
C24_DeniedNotRecorded ==
    /\ [][ \A h \in Handlers :
             (hpc[h] = "isBlocked" /\ hpc'[h] = "idle") => requests' = requests ]_vars
    /\ [](\A ip \in DOMAIN requests : \A t \in 0..MaxClockDD :
             isBlocked(ip, t) <=> (/\ ddRecorded[ip] # << >>
                                   /\ t - C24_LastRecorded(ip) < cfg.blockDuration))

\* C24 happens: a request that arrived after the last recorded one was
\* denied by the block check, and blockDuration after the recorded one the
\* address is not blocked any more
C24_Witness ==
    /\ ddLast.done
    /\ ddLast.decision = "deny"
    /\ ddLast.ip \in DOMAIN requests
    /\ ddLast.t > C24_LastRecorded(ddLast.ip)
    /\ now = C24_LastRecorded(ddLast.ip) + cfg.blockDuration
    /\ ~isBlocked(ddLast.ip, now)
    /\ \A h \in Handlers : hpc[h] = "idle"

\* the number of completed calls since the last Reset that satisfy P
C25_Count(P(_)) == Cardinality({ i \in 1..Len(smHist) : P(smHist[i]) })

\* C25: in every state each counter equals the number of IncrementEvent
\* calls completed since the last Reset that it is to count, so blocked,
\* high-risk and the sum of the per-kind counters are at most TotalEvents,
\* and when Reset has just returned every counter is 0.
C25_CountersExact ==
    /\ metrics.TotalEvents = Len(smHist)
    /\ metrics.BlockedRequests = C25_Count(LAMBDA a : a.blocked)
    /\ metrics.HighRiskEvents = C25_Count(LAMBDA a : a.riskScore > 50)
    /\ metrics.LoginFailures = C25_Count(LAMBDA a : a.eventType = "login_failure")
    /\ metrics.AccessDenied = C25_Count(LAMBDA a : a.eventType = "access_denied")
    /\ metrics.RateLimitHits = C25_Count(LAMBDA a : a.eventType = "rate_limit_exceeded")
    /\ metrics.DDoSAttempts = C25_Count(LAMBDA a : a.eventType = "ddos_detected")
    /\ metrics.SQLInjectionAttempts = C25_Count(LAMBDA a : a.eventType = "sql_injection_attempt")
    /\ metrics.XSSAttempts = C25_Count(LAMBDA a : a.eventType = "xss_attempt")
    /\ metrics.BlockedRequests <= metrics.TotalEvents
    /\ metrics.HighRiskEvents <= metrics.TotalEvents
    /\ metrics.LoginFailures + metrics.AccessDenied + metrics.RateLimitHits
         + metrics.DDoSAttempts + metrics.SQLInjectionAttempts + metrics.XSSAttempts
           <= metrics.TotalEvents
    /\ smLast = "Reset" => \A f \in DOMAIN metrics : metrics[f] = 0

\* C25 happens: three calls have returned, a Reset came after the first,
\* and the two since, one of them blocked, one of high risk and one a DDoS
\* event, are counted
C25_Witness ==
    /\ smStarted = MaxIncrements
    /\ Len(smHist) = 2
    /\ metrics.TotalEvents = 2
    /\ metrics.BlockedRequests = 1
    /\ metrics.HighRiskEvents = 1
    /\ metrics.DDoSAttempts = 1
    /\ metrics.LoginFailures + metrics.DDoSAttempts + metrics.XSSAttempts = 1
    /\ smLast = "IncrementEvent"
    /\ \A c \in Callers : smpc[c] = "idle"

\* the allowed requests of ip whose timestamps lie in the interval of length
\* windowDuration that starts at t
C26_AllowedFrom(ip, t) ==
    { i \in 1..Len(ddAllowed[ip]) :
        ddAllowed[ip][i] >= t /\ ddAllowed[ip][i] - t < cfg.windowDuration }

\* C26: whatever the interleaving of the Protect calls and the cleanup
\* sweep, no interval of length windowDuration holds the timestamps of more
\* than maxRequests allowed requests of one address.
C26_WindowLimit ==
    \A ip \in IPs : \A i \in 1..Len(ddAllowed[ip]) :
        Cardinality(C26_AllowedFrom(ip, ddAllowed[ip][i])) <= cfg.maxRequests

\* C27: a GetStats call that holds the read lock can always go on to its
\* return: no state has GetStats waiting for the read lock inside isBlocked
\* while a Lock() call waits for GetStats to release it.
C27_GetStatsReturns ==
    statsPC = "reading" => ENABLED GetStatsReturn

\* LogEvent call n has returned
C28_Returned(n) == \A p \in Producers : lpc[p] = "idle" \/ lev[p].sub # n

\* the calls whose event analyzer a has been called with
C28_Seen(a) == { n \in 1..Len(calls) : a \in calls[n].by }

\* the number of entries an analyzer's map m holds
C28_Size(m) == Cardinality(UNION { { << k, i >> : i \in 1..Len(m[k]) } : k \in DOMAIN m })

\* an event that took the fallback path has its event entry in the sink once
\* its LogEvent call has returned
C28_Logged ==
    \A n \in 1..Len(calls) :
        calls[n].path = "direct" /\ C28_Returned(n) => C1_Entries(n) = 1

\* an event that took the fallback path never enters the channel, no analyzer
\* is called with it and no alert is logged for it; the analyzers' maps hold
\* entries of enqueued events only
C28_NotAnalyzed ==
    /\ \A n \in 1..Len(calls) :
          calls[n].path = "direct" =>
            /\ calls[n].by = {} /\ ~calls[n].analyzed
            /\ wev.sub # n
            /\ \A i \in 1..Len(events) : events[i].sub # n
            /\ \A i \in 1..Len(sink) : sink[i].sub = n => sink[i].kind = "security_event"
    /\ \A n \in 1..Len(calls) : calls[n].by # {} => calls[n].path = "channel"
    /\ C28_Size(userActivity) <= Cardinality(C28_Seen("SuspiciousActivity"))
    /\ C28_Size(failedLogins) <=
          Cardinality({ n \in C28_Seen("BruteForce") : calls[n].event.EventType = "login_failure" })
    /\ C28_Size(rateLimitEvents) <=
          Cardinality({ n \in C28_Seen("RateLimit") :
                          calls[n].event.EventType \in { "rate_limit_exceeded", "ddos_detected" } })

\* C28: an event that takes LogEvent's fallback path because the channel is
\* full is logged, and it is never handed to an analyzer: it enters no
\* analyzer's window, counts toward no threshold and raises no alert.
C28_OverflowLoggedNotAnalyzed == C28_Logged /\ C28_NotAnalyzed

\* maxRequests >= 1 and windowDuration <= blockDuration
C29_Pre == cfg.maxRequests >= 1 /\ cfg.windowDuration <= cfg.blockDuration

\* the count shouldBlock makes for the call that h serves
C29_Count(h) ==
    Len(SelectSeq(MapGet(requests, hctx[h].ip),
                  LAMBDA reqTime : After(reqTime, hctx[h].now - cfg.windowDuration)))

\* the calls for ip that have recorded their request and not yet counted
C29_Counting(ip) == { h \in Handlers : hpc[h] = "shouldBlock" /\ hctx[h].ip = ip }

C30_FirstAllowed ==
    cfg.maxRequests >= 1 =>
        \A ip \in IPs :
            (/\ ddArrivals[ip] # << >>
             /\ \A h \in Handlers : hpc[h] = "idle" \/ hctx[h].ip # ip)
            => ddAllowed[ip] # << >>
=============================================================================
